---------------------------- MODULE Spec2Model ----------------------------
(***************************************************************************)
(* Model of the insight-agent workflow engine:                             *)
(*   - the agent graph (src/graphs/agent_graph/graph.py, nodes.py): eight  *)
(*     nodes, conditional routing, dict state with partial updates;        *)
(*   - the streaming service agent_stream (src/services/agent_service.py): *)
(*     reduces the graph's events to status / token / error / done;        *)
(*   - the batch runner structurize_intents_batch                          *)
(*     (src/services/intent_structurize_service.py): thread-pool fan-out.  *)
(*                                                                         *)
(* Four specifications: Spec (one agent_stream request, the batch node     *)
(* taken as one step), LiveSpec (Spec with weak fairness, for termination),*)
(* BatchSpec (one structurize_intents_batch call, worker by worker) and    *)
(* PureSpec (one call of a pure function on an input of a bounded set).    *)
(*                                                                         *)
(* Optional values (Python None or a value) are <<>> or <<v>>.             *)
(* Texts are sequences of characters; node names, intents and error        *)
(* messages are strings.                                                   *)
(***************************************************************************)
EXTENDS Naturals, Sequences, FiniteSets, TLC

\* ------------------------------------------------------------- bounds
\* Most records in one search response.
MaxRecords == 2
\* Most chunks one completion call streams.
MaxChunks == 2

\* ------------------------------------------------------------ helpers
None == <<>>
Some(x) == <<x>>
IsSet(o) == o /= None
\* Python truthiness of an optional text / list, and of an optional bool.
TruthySeq(o) == o /= None /\ o[1] /= <<>>
TruthyStr(o) == o /= None /\ o[1] /= ""
TruthyBool(o) == o /= None /\ o[1] = TRUE

\* dict.get(key) on a state or update: None when the key is absent.
Get(d, k) == IF k \in DOMAIN d THEN d[k] ELSE None

Last(s) == s[Len(s)]

RECURSIVE Concat(_)
Concat(ss) == IF ss = <<>> THEN <<>> ELSE Head(ss) \o Concat(Tail(ss))

\* All sequences over S of length at most n.
SeqsUpTo(S, n) == UNION {[1..k -> S] : k \in 0..n}

\* --------------------------------------------------------------- texts
\* The contents one streamed chunk may carry (an empty chunk is possible).
ChunkTexts == {<<>>, <<"a">>}
\* The texts a non-streamed completion may return.
ReplyTexts == {Concat(cs) : cs \in SeqsUpTo(ChunkTexts, MaxChunks)}
\* "当前未收录该达人", the fixed not-found message of the search node.
NOT_FOUND == <<"n", "f">>
\* The chart markdown appended by _generate_chart_image_markdown: line
\* breaks, then the image reference.
CHART_MD == <<" ", "c">>
\* not text.strip(): the text holds white space only.
Blank(text) == \A i \in 1..Len(text) : text[i] = " "

\* -------------------------------------------------------------- inputs
\* User messages: one without a search keyword, one with ("视频"), one blank.
UserInputs == {"hello", "search_videos", " "}
KeywordInputs == {"search_videos"}
\* str.strip()
Strip(s) == IF s = " " THEN "" ELSE s
HasKeyword(u) == u \in KeywordInputs

NodeNames == {"intent_analysis", "vkdb_search", "intent_structurize", "mysql_join",
              "data_aggregate", "llm_analyze", "llm_summarize", "simple_chat"}
END == "__end__"
\* Nodes whose chat-model stream is forwarded as token events.
TokenNodes == {"llm_summarize", "simple_chat"}
\* Nodes that call the completion collaborator inside the graph's callbacks.
LLMNodes == {"intent_analysis", "llm_analyze", "llm_summarize", "simple_chat"}

\* ------------------------------------------------------- state container
\* initial_state of agent_stream.
InitialState(user_message, system_prompt) ==
    [messages |-> (IF system_prompt /= "" THEN <<[role |-> "system", content |-> system_prompt]>>
                   ELSE <<>>) \o <<[role |-> "human", content |-> user_message]>>,
     intent |-> None,
     vkdb_query |-> None,
     vkdb_influencer |-> None,
     vkdb_response |-> None,
     vkdb_no_result |-> None,
     mysql_join_result |-> None,
     final_summary |-> None,
     error |-> None]

\* The fields AgentState declares.
AgentStateFields == {"messages", "intent", "vkdb_query", "vkdb_influencer", "vkdb_response",
                     "vkdb_no_result", "mysql_join_result", "final_summary", "error"}

\* Merge of a node's partial update into the running state: the keys of the
\* update overwrite, "messages" appends, every other key is kept.  The nodes
\* and routers read structured_intents / aggregated_stats / analysis_result
\* back with state.get although AgentState does not declare them; whether the
\* executor keeps an undeclared key of an update is the library's choice
\* (keeps), not this repository's.
\* A merge that appends on every channel, as it does on "messages".
Merge_appending(s, u, keeps) ==
    LET written == IF keeps THEN DOMAIN u ELSE DOMAIN u \cap AgentStateFields
    IN  [k \in DOMAIN s \cup written |->
            IF k \notin written THEN s[k]
            ELSE IF k \in DOMAIN s THEN s[k] \o u[k]
            ELSE u[k]]

\* A merge that replaces the state by the update: a field the update does not
\* carry is reset to None.
Merge_replacing(s, u, keeps) ==
    LET written == IF keeps THEN DOMAIN u ELSE DOMAIN u \cap AgentStateFields
    IN  [k \in DOMAIN s \cup written |->
            IF k \notin written THEN None
            ELSE IF k = "messages" /\ k \in DOMAIN s THEN s[k] \o u[k]
            ELSE u[k]]

Merge(s, u, keeps) ==
    LET written == IF keeps THEN DOMAIN u ELSE DOMAIN u \cap AgentStateFields
    IN  [k \in DOMAIN s \cup written |->
            IF k \notin written THEN s[k]
            ELSE IF k = "messages" /\ k \in DOMAIN s THEN s[k] \o u[k]
            ELSE u[k]]


\* ------------------------------------------------- external collaborators
\* Replies of the structured completion call of intent classification
\* (ok = FALSE: the call or its parsing raised).
IntentReplies ==
    {[ok |-> FALSE, intent |-> "", query |-> None, influencer |-> None]}
    \cup {[ok |-> TRUE, intent |-> i, query |-> None, influencer |-> None] :
              i \in {"simple_chat", "other"}}
    \cup {[ok |-> TRUE, intent |-> "vkdb_search", query |-> Some("q"), influencer |-> Some("inf")],
          [ok |-> TRUE, intent |-> "vkdb_search", query |-> None, influencer |-> None]}

\* One search record: mid is the join key extracted from landscape_video
\* ("" when the value yields none), text tells whether intent_analysis is
\* non-blank.
MaterialIds == {"101", "202"}
SearchRecords ==
    {[mid |-> "", text |-> TRUE], [mid |-> "101", text |-> FALSE]}
    \cup {[mid |-> m, text |-> TRUE] : m \in MaterialIds}
\* A search response: result.data.
SearchResponses == {[data |-> d] : d \in SeqsUpTo(SearchRecords, MaxRecords)}

\* Outcomes of parse_single_intent_analysis for one item.
ItemOutcomes == {"success", "failed"}

\* StructuredIntentResult.
Result(material_id, success, err) ==
    [materialId |-> material_id, success |-> success, error |-> err]

\* extract_videos_from_vkdb_response: the materialId of every record that has
\* a join key and a non-blank intent_analysis, in response order.
RECURSIVE ExtractVideosOf(_)
ExtractVideosOf(data) ==
    IF data = <<>> THEN <<>>
    ELSE LET item == Head(data) IN
         IF item.mid = "" THEN ExtractVideosOf(Tail(data))
         ELSE IF ~item.text THEN ExtractVideosOf(Tail(data))
         ELSE <<item.mid>> \o ExtractVideosOf(Tail(data))
extract_videos_from_vkdb_response(vkdb_response) == ExtractVideosOf(vkdb_response.data)

\* _extract_material_ids_and_tos: the distinct join keys in response order.
RECURSIVE ExtractIdsOf(_, _)
ExtractIdsOf(data, seen) ==
    IF data = <<>> THEN <<>>
    ELSE LET mid == Head(data).mid IN
         IF mid = "" \/ mid \in seen THEN ExtractIdsOf(Tail(data), seen)
         ELSE <<mid>> \o ExtractIdsOf(Tail(data), seen \cup {mid})
extract_material_ids(vkdb_response) == ExtractIdsOf(vkdb_response.data, {})

Perms(n) == {p \in [1..n -> 1..n] : \A i, j \in 1..n : p[i] = p[j] => i = j}

\* The result of parse_single_intent_analysis for one outcome.
ItemResult(material_id, outcome) ==
    IF outcome = "success" THEN Result(material_id, TRUE, None)
    ELSE Result(material_id, FALSE, Some("parse failed"))

\* What structurize_intents_batch may return for a response: one result per
\* extracted video, in any completion order, each item succeeding or failing.
BatchReturns(vkdb_response) ==
    LET videos == extract_videos_from_vkdb_response(vkdb_response)
        n == Len(videos)
    IN  {[k \in 1..n |-> ItemResult(videos[p[k]], o[p[k]])] :
            p \in Perms(n), o \in [1..n -> ItemOutcomes]}

\* --------------------------------------------------------------- nodes
\* Each node is its partial update, as a function of the state it reads and
\* of the reply of the collaborator it calls.

\* A classifier that stores the intent of the reply as it came.
IntentAnalysisNode_passing_intent(s, r) ==
    IF r.ok THEN [intent |-> Some(r.intent)] ELSE [error |-> Some("classification failed")]

\* intent_analysis_node._node
IntentAnalysisNode(s, r) ==
    LET user_input == Last(s.messages).content IN
    IF r.ok THEN
        IF r.intent = "vkdb_search" THEN
            LET influencer == Strip(IF TruthyStr(r.influencer) THEN r.influencer[1] ELSE "")
                query == Strip(IF TruthyStr(r.query) THEN r.query[1]
                               ELSE IF influencer /= "" THEN influencer ELSE user_input)
            IN  [intent |-> Some("vkdb_search"),
                 vkdb_query |-> Some(query),
                 vkdb_influencer |-> IF influencer /= "" THEN Some(influencer) ELSE None]
        ELSE [intent |-> Some("simple_chat")]
    ELSE IF HasKeyword(user_input)
         THEN [intent |-> Some("vkdb_search"), vkdb_query |-> Some(user_input)]
         ELSE [intent |-> Some("simple_chat")]

\* The guards of vkdb_search_node._node before the tool call: "" when the
\* node goes on to call the search tool, else the error it returns.
VkdbSearchPrecheck(s, search_method) ==
    LET query == IF TruthyStr(s.vkdb_query) THEN s.vkdb_query[1] ELSE ""
        influencer_hint == Strip(IF TruthyStr(s.vkdb_influencer) THEN s.vkdb_influencer[1] ELSE "")
    IN  IF s.intent /= Some("vkdb_search") THEN "Invalid intent for vkdb_search node"
        ELSE IF search_method = "random"
             THEN (IF influencer_hint = "" /\ query = ""
                   THEN "Random search requires influencer or query" ELSE "")
             ELSE (IF query = "" THEN "No query provided" ELSE "")

\* A search node that, on zero records, also fills in an empty join result.
VkdbSearchNode_with_empty_join(s, search_method, r) ==
    IF VkdbSearchPrecheck(s, search_method) /= "" THEN [error |-> Some("precheck")]
    ELSE IF ~r.ok THEN [error |-> Some("VikingDB search failed"), vkdb_response |-> None]
    ELSE [vkdb_response |-> Some(r.resp),
          final_summary |-> IF Len(r.resp.data) = 0 THEN Some(NOT_FOUND) ELSE None,
          vkdb_no_result |-> Some(Len(r.resp.data) = 0),
          mysql_join_result |-> IF Len(r.resp.data) = 0
                                THEN Some([material_ids |-> <<>>, row_count |-> 0]) ELSE None]

\* vkdb_search_node._node; r.ok = FALSE: the search tool raised.
VkdbSearchNode(s, search_method, r) ==
    LET query == IF TruthyStr(s.vkdb_query) THEN s.vkdb_query[1] ELSE ""
        influencer_hint == Strip(IF TruthyStr(s.vkdb_influencer) THEN s.vkdb_influencer[1] ELSE "")
        influence_value == IF influencer_hint /= "" THEN influencer_hint ELSE query
        pre == VkdbSearchPrecheck(s, search_method)
    IN  IF pre /= "" THEN [error |-> Some(pre)]
        ELSE IF ~r.ok THEN [error |-> Some("VikingDB search failed"), vkdb_response |-> None]
        ELSE IF Len(r.resp.data) = 0
             THEN [vkdb_response |-> Some(r.resp),
                   final_summary |-> Some(NOT_FOUND),
                   vkdb_influencer |-> Some(influence_value),
                   vkdb_no_result |-> Some(TRUE)]
             ELSE [vkdb_response |-> Some(r.resp),
                   vkdb_influencer |-> Some(influence_value),
                   vkdb_no_result |-> Some(FALSE)]

SearchReplies == {[ok |-> FALSE, resp |-> [data |-> <<>>]]}
                 \cup {[ok |-> TRUE, resp |-> x] : x \in SearchResponses}
\* vikingdb_search_method
SearchMethods == {"multi_modal", "random"}

\* intent_structurize_node._node; r.ok = FALSE: structurize_intents_batch
\* raised (prompt template or client could not be loaded), else r.results is
\* what it returned.
IntentStructurizeCallsBatch(s, enabled) ==
    enabled /\ IsSet(Get(s, "vkdb_response")) /\ ~TruthyBool(Get(s, "vkdb_no_result"))

\* A node that reports an error as soon as one item of the batch failed.
IntentStructurizeNode_escalating(s, enabled, r) ==
    IF ~enabled THEN <<>>
    ELSE IF ~IsSet(Get(s, "vkdb_response"))
         THEN [error |-> Some("No vkdb_response for intent structurization")]
    ELSE IF TruthyBool(Get(s, "vkdb_no_result")) THEN <<>>
    ELSE IF ~r.ok \/ (\E k \in 1..Len(r.results) : ~r.results[k].success)
         THEN [error |-> Some("Intent structurization failed"),
               structured_intents |-> Some(r.results)]
    ELSE [structured_intents |-> Some(r.results)]

\* A node that does not look at the feature switch.
IntentStructurizeNode_ignoring_switch(s, enabled, r) ==
    IF ~IsSet(Get(s, "vkdb_response"))
    THEN [error |-> Some("No vkdb_response for intent structurization")]
    ELSE IF TruthyBool(Get(s, "vkdb_no_result")) THEN <<>>
    ELSE IF ~r.ok
         THEN [error |-> Some("Intent structurization failed"), structured_intents |-> Some(<<>>)]
    ELSE [structured_intents |-> Some(r.results)]

IntentStructurizeNode(s, enabled, r) ==
    IF ~enabled THEN <<>>
    ELSE IF ~IsSet(Get(s, "vkdb_response"))
         THEN [error |-> Some("No vkdb_response for intent structurization")]
    ELSE IF TruthyBool(Get(s, "vkdb_no_result")) THEN <<>>
    ELSE IF ~r.ok
         THEN [error |-> Some("Intent structurization failed"), structured_intents |-> Some(<<>>)]
    ELSE [structured_intents |-> Some(r.results)]

\* mysql_join_node._node with vkdb_response_to_mysql_join; r.ok = FALSE: the
\* statement could not be composed or the row query raised, else r.rows is
\* the row count returned.
MysqlJoinNode(s, r) ==
    IF ~IsSet(Get(s, "vkdb_response")) THEN [error |-> Some("No vkdb_response for MySQL join")]
    ELSE IF TruthyBool(Get(s, "vkdb_no_result"))
         THEN [mysql_join_result |-> None,
               final_summary |-> Get(s, "final_summary"),
               vkdb_influencer |-> Get(s, "vkdb_influencer")]
    ELSE LET material_ids == extract_material_ids(s.vkdb_response[1]) IN
         IF material_ids = <<>> \/ ~r.ok
         THEN [error |-> Some("MySQL join failed"), mysql_join_result |-> None]
         ELSE [mysql_join_result |-> Some([material_ids |-> material_ids, row_count |-> r.rows])]

\* Whether mysql_join_node reaches its call of vkdb_response_to_mysql_join
\* (and with it the row query).
MysqlJoinCallsService(s) ==
    IsSet(Get(s, "vkdb_response")) /\ ~TruthyBool(Get(s, "vkdb_no_result"))

MysqlReplies == {[ok |-> FALSE, rows |-> 0]} \cup {[ok |-> TRUE, rows |-> n] : n \in {0, 1}}

\* data_aggregate_node._node; r: "fail" (generate_aggregation_csv raised),
\* "header" (the header-only table) or "rows".
DataAggregateNode(s, r) ==
    IF ~TruthySeq(Get(s, "structured_intents")) THEN <<>>
    ELSE IF ~IsSet(Get(s, "mysql_join_result")) THEN <<>>
    ELSE IF r = "fail"
         THEN [error |-> Some("Data aggregation failed"), aggregated_stats |-> None]
    ELSE [aggregated_stats |-> Some(r)]

\* generate_aggregation_csv gives the header-only table when no item succeeded
\* or the join returned no row.
AggregateReplies(s) ==
    IF TruthySeq(Get(s, "structured_intents")) /\ IsSet(Get(s, "mysql_join_result"))
       /\ (\E i \in 1..Len(s.structured_intents[1]) : s.structured_intents[1][i].success)
       /\ s.mysql_join_result[1].row_count > 0
    THEN {"fail", "header", "rows"}
    ELSE {"fail", "header"}

\* llm_analyze_node._node; r.ok = FALSE: the structured call and its fallback
\* failed, else r.plot tells whether plot_data is non-empty.
LlmAnalyzeCallsLLM(s) == TruthyStr(Get(s, "aggregated_stats"))

LlmAnalyzeNode(s, r) ==
    IF ~LlmAnalyzeCallsLLM(s) THEN <<>>
    ELSE IF ~r.ok THEN [error |-> Some("LLM analysis failed"), analysis_result |-> None]
    ELSE [analysis_result |-> Some([summary |-> Some("insight"), plot_data |-> r.plot])]

AnalyzeReplies == {[ok |-> FALSE, plot |-> FALSE]} \cup {[ok |-> TRUE, plot |-> p] : p \in BOOLEAN}

\* llm_summarize_node._node.  text is what llm.astream delivered before it
\* ended (r.ok) or raised (~r.ok); r.chart tells whether the chart markdown
\* could be generated.
\* A summary node that calls the model whenever no summary is there yet.
LlmSummarizeCallsLLM_without_response_guard(s) == ~TruthySeq(Get(s, "final_summary"))

LlmSummarizeCallsLLM(s) ==
    IsSet(Get(s, "vkdb_response")) /\ ~TruthySeq(Get(s, "final_summary"))

LlmSummarizeNode(s, text, r) ==
    IF ~IsSet(Get(s, "vkdb_response")) THEN [error |-> Some("No vkdb_response for summarization")]
    ELSE IF TruthySeq(Get(s, "final_summary")) THEN [final_summary |-> s.final_summary]
    ELSE LET analysis_result == Get(s, "analysis_result")
             has_analysis == IsSet(analysis_result) /\ IsSet(analysis_result[1].summary)
         IN  IF ~r.ok
             THEN [error |-> Some("LLM summarization failed"), final_summary |-> None]
             ELSE [final_summary |->
                     Some(IF has_analysis /\ analysis_result[1].plot_data /\ r.chart
                          THEN text \o CHART_MD ELSE text)]

SummarizeReplies == {[ok |-> o, chart |-> c] : o \in BOOLEAN, c \in BOOLEAN}

\* simple_chat_node._node; content is the reply of llm.invoke.
SimpleChatNode(s, content, ok) ==
    IF s.messages = <<>> THEN [error |-> Some("No messages provided")]
    ELSE IF ~ok THEN [error |-> Some("Simple chat failed"), final_summary |-> None]
    ELSE [final_summary |-> Some(content)]

\* -------------------------------------------------------------- routing
\* A router that sends every request to the search.
route_after_intent_always_search(s) == "vkdb_search"

\* route_after_intent
route_after_intent(s) ==
    IF Get(s, "intent") = Some("vkdb_search") THEN "vkdb_search"
    ELSE IF Get(s, "intent") = Some("simple_chat") THEN "simple_chat"
    ELSE "simple_chat"

\* A router that hands every search result to simple_chat.
route_after_vkdb_to_chat(s) == "simple_chat"

\* A router that goes back to the classifier when the search found nothing.
route_after_vkdb_starting_over(s) ==
    IF TruthyBool(Get(s, "vkdb_no_result")) THEN "intent_analysis" ELSE "intent_structurize"

\* A router that ignores vkdb_no_result.
route_after_vkdb_ignoring_no_result(s) == "intent_structurize"

\* route_after_vkdb with its edge map ("mysql_join" -> intent_structurize).
route_after_vkdb(s) ==
    IF TruthyBool(Get(s, "vkdb_no_result")) THEN END ELSE "intent_structurize"

\* Share of succeeded items, compared with 0.5 without division.
SuccessCount(items) == Cardinality({i \in 1..Len(items) : items[i].success})
BelowHalf(items) == 2 * SuccessCount(items) < Len(items)

\* route_after_structurize: every branch returns "mysql_join".
route_after_structurize(s, enabled) ==
    IF ~enabled THEN "mysql_join"
    ELSE IF ~TruthySeq(Get(s, "structured_intents")) THEN "mysql_join"
    ELSE IF BelowHalf(s.structured_intents[1]) THEN "mysql_join"
    ELSE "mysql_join"

\* A router that looks at the first item of the batch only.
route_after_mysql_on_first_item(s) ==
    IF TruthySeq(Get(s, "structured_intents")) /\ s.structured_intents[1][1].success
    THEN "data_aggregate" ELSE "llm_summarize"

\* A router that always goes straight to the summary.
route_after_mysql_always_summarize(s) == "llm_summarize"

\* route_after_mysql
route_after_mysql(s) ==
    IF TruthySeq(Get(s, "structured_intents")) THEN "data_aggregate" ELSE "llm_summarize"

\* A graph with a second, unconditional edge out of mysql_join.
Edges_with_join_to_summary ==
    {<<"mysql_join", "llm_summarize">>,
     <<"data_aggregate", "llm_analyze">>, <<"llm_analyze", "llm_summarize">>,
     <<"llm_summarize", END>>, <<"simple_chat", END>>}

\* The add_edge calls of build_agent_graph between nodes.
Edges ==
    {<<"data_aggregate", "llm_analyze">>, <<"llm_analyze", "llm_summarize">>,
     <<"llm_summarize", END>>, <<"simple_chat", END>>}

\* The add_conditional_edges calls: the target the router of n selects in
\* state s (none for a node without a router).
Branches(n, s, enabled) ==
    CASE n = "intent_analysis" -> {route_after_intent(s)}
      [] n = "vkdb_search" -> {route_after_vkdb(s)}
      [] n = "intent_structurize" -> {route_after_structurize(s, enabled)}
      [] n = "mysql_join" -> {route_after_mysql(s)}
      [] OTHER -> {}

\* Every node the compiled graph schedules after n in state s: the targets
\* of its edges and of its router.
Successors(n, s, enabled) ==
    {e[2] : e \in {x \in Edges : x[1] = n}} \cup Branches(n, s, enabled)

\* The node that follows n in state s.
NextNode(n, s, enabled) == CHOOSE x \in Successors(n, s, enabled) : TRUE


\* The updates node n may return in state s, over every reply of the
\* collaborator it calls (texts: what its completion call may deliver).
NodeUpdates(n, s, enabled, texts) ==
    CASE n = "intent_analysis" -> {IntentAnalysisNode(s, r) : r \in IntentReplies}
      [] n = "vkdb_search" ->
            {VkdbSearchNode(s, m, r) : m \in SearchMethods, r \in SearchReplies}
      [] n = "intent_structurize" ->
            IF IntentStructurizeCallsBatch(s, enabled)
            THEN {IntentStructurizeNode(s, enabled, [ok |-> TRUE, results |-> res]) :
                      res \in BatchReturns(s.vkdb_response[1])}
                 \cup {IntentStructurizeNode(s, enabled, [ok |-> FALSE, results |-> <<>>])}
            ELSE {IntentStructurizeNode(s, enabled, [ok |-> TRUE, results |-> <<>>])}
      [] n = "mysql_join" -> {MysqlJoinNode(s, r) : r \in MysqlReplies}
      [] n = "data_aggregate" -> {DataAggregateNode(s, r) : r \in AggregateReplies(s)}
      [] n = "llm_analyze" -> {LlmAnalyzeNode(s, r) : r \in AnalyzeReplies}
      [] n = "llm_summarize" ->
            {LlmSummarizeNode(s, t, r) : t \in texts, r \in SummarizeReplies}
      [] n = "simple_chat" -> {SimpleChatNode(s, t, ok) : t \in texts, ok \in BOOLEAN}

\* ---------------------------------------------- the fallback graph.astream
\* agent_stream's fallback loop `async for state in graph.astream(initial_state)`
\* executes the graph again and stops at the first chunk whose final_summary
\* is non-empty.  Explore follows that loop over every reply of every
\* collaborator: F is the set of <<node, state>> pairs about to run; the
\* result is the set of final_summary values the loop can end with.
RECURSIVE Explore(_, _, _)
Explore(F, enabled, keeps) ==
    IF F = {} THEN {}
    ELSE LET after == UNION {{<<p[1], Merge(p[2], u, keeps)>> :
                                 u \in NodeUpdates(p[1], p[2], enabled, ReplyTexts)} : p \in F}
             found == {Get(q[2], "final_summary") :
                          q \in {x \in after : TruthySeq(Get(x[2], "final_summary"))}}
             rest == {<<NextNode(q[1], q[2], enabled), q[2]>> :
                         q \in {x \in after : /\ ~TruthySeq(Get(x[2], "final_summary"))
                                               /\ NextNode(x[1], x[2], enabled) /= END}}
         IN  found \cup Explore(rest, enabled, keeps)

\* The values final_summary may hold when the fallback loop ends: None when a
\* chunk never carries a non-empty final_summary (always so when the chunks
\* are keyed by node name), else the first non-empty one.
RerunSummaries(init, enabled, keeps) ==
    {None} \cup Explore({<<"intent_analysis", init>>}, enabled, keeps)

\* The requests: a user message and an optional system prompt.
Requests == {<<"hello", "sys">>, <<"search_videos", "">>, <<" ", "">>}

\* ------------------------------------------------- one run, reply by reply
\* What structurize_intents_batch returns when the items end with outcomes o
\* and are yielded by as_completed in the order p.
BatchResults(videos, o, p) ==
    [k \in 1..Len(videos) |-> ItemResult(videos[p[k]], o[p[k]])]

\* The update node n returns in state s when its collaborator replies as R
\* says (R holds one reply per collaborator).
UpdateWith(n, s, enabled, R) ==
    CASE n = "intent_analysis" -> IntentAnalysisNode(s, R.intent)
      [] n = "vkdb_search" -> VkdbSearchNode(s, R.method, R.search)
      [] n = "intent_structurize" -> IntentStructurizeNode(s, enabled, R.batch)
      [] n = "mysql_join" -> MysqlJoinNode(s, R.mysql)
      [] n = "data_aggregate" -> DataAggregateNode(s, R.aggregate)
      [] n = "llm_analyze" -> LlmAnalyzeNode(s, R.analyze)
      [] n = "llm_summarize" -> LlmSummarizeNode(s, R.text, R.summarize)
      [] n = "simple_chat" -> SimpleChatNode(s, R.text, R.summarize.ok)

\* The nodes the compiled graph executes from node n in state s, in order,
\* when the collaborators reply as R says.
RECURSIVE RunFrom(_, _, _, _, _)
RunFrom(n, s, enabled, keeps, R) ==
    IF n = END THEN <<>>
    ELSE LET s2 == Merge(s, UpdateWith(n, s, enabled, R), keeps)
         IN  <<n>> \o RunFrom(NextNode(n, s2, enabled), s2, enabled, keeps, R)

\* ------------------------------------------------------------ variables
VARIABLES
    \* agent_stream (agent_service.py)
    phase,             \* "init", "loop" (astream_events), "closed" (generator ended)
                       \* or "raised" (it raised)
    out,               \* the events yielded so far
    final_state,       \* final_state: None or the captured output, kept to the one
                       \* key agent_stream reads from it (final_summary)
    streamed_token,    \* streamed_token
    accumulated_text,  \* accumulated_text
    initial_state,     \* initial_state
    rerun_summaries,   \* what the fallback execution of the graph may end with for
                       \* this request (fixed once the request is known)
    settings,          \* the settings the graph was built with
    \* the compiled graph's run under astream_events
    pc,                \* the node scheduled or running, "" before the run, END after
    stage,             \* "pending" (node not started), "running", "ended" (graph end handled)
    state,             \* the running state dict
    visited,           \* nodes started in the run, in order
    runs,              \* graph executions started by this request
    llm_text,          \* content streamed so far by the running node's completion call
    llm_n,             \* events seen so far from the running node's collaborator call
    failed_node,       \* first node of the run whose update carried "error" ("" if none)
    failed_error,      \* the error that update carried ("" if none)
    keeps_undeclared,  \* whether the executor keeps update keys AgentState does not declare
    \* structurize_intents_batch (intent_structurize_service.py)
    b_pc,              \* "init", "collect" (inside the with block), "returned", "raised"
    b_response,        \* vkdb_response: the argument of the call
    b_concurrency,     \* max_workers of the pool
    b_videos,          \* videos: the materialId of each submitted item
    b_task,            \* per item: "queued", "running" or "done" (the future's state)
    b_outcome,         \* per finished item: its outcome and whether it overran the timeout
    b_collected,       \* the items as_completed has yielded, in that order
    b_results,         \* results
    \* one call of a pure function
    f_fn,              \* the function called
    f_args,            \* its arguments
    f_pc,              \* "idle", "ready" or "returned"
    f_result           \* what it returned

svars == <<phase, out, final_state, streamed_token, accumulated_text, initial_state,
           rerun_summaries, settings>>
gvars == <<pc, stage, state, visited, runs, llm_text, llm_n, failed_node, failed_error,
           keeps_undeclared>>
bvars == <<b_pc, b_response, b_concurrency, b_videos, b_task, b_outcome, b_collected, b_results>>
pvars == <<f_fn, f_args, f_pc, f_result>>
vars == <<svars, gvars, bvars, pvars>>

\* ---------------------------------------------------------- stream events
Status(text) == [type |-> "status", content |-> <<text>>]
Token(text) == [type |-> "token", content |-> text]
Error(text) == [type |-> "error", content |-> <<text>>]
Done == [type |-> "done", content |-> <<>>]

\* The status phrase agent_stream yields for an on_chain_start event named n
\* ("" when it yields none).
StatusFor(n) ==
    CASE n = "intent_analysis" -> "analysing intent"
      [] n = "vkdb_search" -> "searching VikingDB"
      [] n = "mysql_join" -> "running MySQL analysis"
      [] n = "llm_summarize" -> "generating summary"
      [] n = "simple_chat" -> "thinking"
      [] OTHER -> ""

\* One token event per character: the fallback replay of final_summary.
CharTokens(text) == [i \in 1..Len(text) |-> Token(<<text[i]>>)]

\* An except handler that yields the error and ends without [DONE].
ExceptEvents_without_done == <<Error("processing failed")>>

\* The except handler of agent_stream: an error event, then [DONE].
ExceptEvents == <<Error("processing failed"), Done>>

\* What agent_stream keeps of a captured output: its final_summary key.
Captured(output) ==
    IF "final_summary" \in DOMAIN output THEN [final_summary |-> output["final_summary"]]
    ELSE <<>>

BatchIdle ==
    /\ b_pc = "init" /\ b_response = [data |-> <<>>] /\ b_concurrency = 1
    /\ b_videos = <<>> /\ b_task = <<>>
    /\ b_outcome = <<>> /\ b_collected = <<>> /\ b_results = <<>>

PureIdle == f_fn = "" /\ f_args = <<>> /\ f_pc = "idle" /\ f_result = <<>>

Init ==
    /\ phase = "init" /\ out = <<>> /\ final_state = None
    /\ streamed_token = FALSE /\ accumulated_text = <<>>
    /\ initial_state = InitialState("hello", "") /\ rerun_summaries = {}
    /\ settings = [intent_structurize_enabled |-> TRUE]
    /\ pc = "" /\ stage = "pending" /\ state = InitialState("hello", "")
    /\ visited = <<>> /\ runs = 0 /\ llm_text = <<>> /\ llm_n = 0
    /\ failed_node = "" /\ failed_error = "" /\ keeps_undeclared = TRUE
    /\ BatchIdle
    /\ PureIdle

SettingsChoices == {[intent_structurize_enabled |-> e] : e \in BOOLEAN}

\* agent_stream up to its first yield.  load_settings and build_agent_graph
\* run before the try block: when either raises, the generator raises with
\* nothing yielded.
AgentStreamCall ==
    /\ phase = "init"
    /\ \E req \in Requests, cfg \in SettingsChoices, keeps \in BOOLEAN, setup_ok \in BOOLEAN :
          /\ initial_state' = InitialState(req[1], req[2])
          /\ settings' = cfg
          /\ keeps_undeclared' = keeps
          /\ IF setup_ok
             THEN /\ phase' = "loop"
                  /\ rerun_summaries' = RerunSummaries(InitialState(req[1], req[2]),
                                            cfg.intent_structurize_enabled, keeps)
                  /\ out' = <<Status("analysing request")>>
                  /\ state' = InitialState(req[1], req[2])
                  /\ pc' = "intent_analysis" /\ stage' = "pending"
                  /\ runs' = 1
             ELSE /\ phase' = "raised"
                  /\ UNCHANGED <<out, state, pc, stage, runs, rerun_summaries>>
    /\ UNCHANGED <<final_state, streamed_token, accumulated_text,
                   visited, llm_text, llm_n, failed_node, failed_error, bvars, pvars>>

\* A node starts; its on_chain_start event is handled: a status event for
\* the nodes agent_stream names.
NodeStart ==
    /\ phase = "loop" /\ pc \in NodeNames /\ stage = "pending"
    /\ stage' = "running"
    /\ visited' = Append(visited, pc)
    /\ llm_text' = <<>> /\ llm_n' = 0
    /\ out' = IF StatusFor(pc) /= "" THEN Append(out, Status(StatusFor(pc))) ELSE out
    /\ UNCHANGED <<phase, final_state, streamed_token, accumulated_text, initial_state,
                   rerun_summaries,
                   settings, pc, state, runs, failed_node, failed_error, keeps_undeclared, bvars, pvars>>

\* Whether the running node reaches its completion call.
CallsLLM(n, s) ==
    CASE n = "intent_analysis" -> TRUE
      [] n = "llm_analyze" -> LlmAnalyzeCallsLLM(s)
      [] n = "llm_summarize" -> LlmSummarizeCallsLLM(s)
      [] n = "simple_chat" -> s.messages /= <<>>
      [] OTHER -> FALSE

\* A branch that forwards the chunks of every node.
ForwardsToken_any_node(n, chunk) == chunk /= <<>>

\* A branch that forwards no chunk: the text is left to the replay after the
\* event loop.
ForwardsToken_never(n, chunk) == FALSE

\* The on_chat_model_stream branch of agent_stream for a chunk of node n.
ForwardsToken(n, chunk) == n \in TokenNodes /\ chunk /= <<>>

\* The running node's completion call streams one chunk; its
\* on_chat_model_stream event is handled.
ChatModelStream ==
    /\ phase = "loop" /\ pc \in LLMNodes /\ stage = "running"
    /\ CallsLLM(pc, state) /\ llm_n < MaxChunks
    /\ \E chunk \in ChunkTexts :
          /\ llm_n' = llm_n + 1
          /\ llm_text' = llm_text \o chunk
          /\ IF ForwardsToken(pc, chunk)
             THEN /\ streamed_token' = TRUE
                  /\ accumulated_text' = accumulated_text \o chunk
                  /\ out' = Append(out, Token(chunk))
             ELSE UNCHANGED <<streamed_token, accumulated_text, out>>
    /\ UNCHANGED <<phase, final_state, initial_state,
                   rerun_summaries, settings, pc, stage, state, visited,
                   runs, failed_node, failed_error, keeps_undeclared, bvars, pvars>>

\* The search tool starts inside vkdb_search; its on_tool_start event is
\* handled.  llm_n marks that it has been seen.
ToolStart ==
    /\ phase = "loop" /\ pc = "vkdb_search" /\ stage = "running" /\ llm_n = 0
    /\ \E m \in SearchMethods : VkdbSearchPrecheck(state, m) = ""
    /\ llm_n' = 1
    /\ out' = Append(out, Status("calling tool"))
    /\ UNCHANGED <<phase, final_state, streamed_token, accumulated_text, initial_state,
                   rerun_summaries,
                   settings, pc, stage, state, visited, runs, llm_text, failed_node, failed_error,
                   keeps_undeclared, bvars, pvars>>

\* The running node returns update u: the executor merges it and selects the
\* successor; the node's on_chain_end event is handled (the output of
\* llm_summarize / simple_chat becomes final_state).
NodeReturn(u) ==
    LET s2 == Merge(state, u, keeps_undeclared)
        fails == failed_node = "" /\ IsSet(Get(u, "error"))
    IN  /\ state' = s2
        /\ failed_node' = IF fails THEN pc ELSE failed_node
        /\ failed_error' = IF fails THEN u.error[1] ELSE failed_error
        /\ llm_text' = <<>> /\ llm_n' = 0
        /\ final_state' = IF pc \in TokenNodes THEN Some(Captured(u)) ELSE final_state
        /\ pc' = NextNode(pc, s2, settings.intent_structurize_enabled)
        /\ stage' = "pending"
        /\ UNCHANGED <<phase, out, streamed_token, accumulated_text, initial_state,
                       rerun_summaries, settings,
                       visited, runs, keeps_undeclared, bvars, pvars>>

Running(n) == phase = "loop" /\ pc = n /\ stage = "running"

IntentAnalysisEnd ==
    /\ Running("intent_analysis")
    /\ \E u \in NodeUpdates(pc, state, settings.intent_structurize_enabled, {}) : NodeReturn(u)

VkdbSearchEnd ==
    /\ Running("vkdb_search")
    /\ \E u \in NodeUpdates(pc, state, settings.intent_structurize_enabled, {}) : NodeReturn(u)

IntentStructurizeEnd ==
    /\ Running("intent_structurize")
    /\ \E u \in NodeUpdates(pc, state, settings.intent_structurize_enabled, {}) : NodeReturn(u)

MysqlJoinEnd ==
    /\ Running("mysql_join")
    /\ \E u \in NodeUpdates(pc, state, settings.intent_structurize_enabled, {}) : NodeReturn(u)

DataAggregateEnd ==
    /\ Running("data_aggregate")
    /\ \E u \in NodeUpdates(pc, state, settings.intent_structurize_enabled, {}) : NodeReturn(u)

LlmAnalyzeEnd ==
    /\ Running("llm_analyze")
    /\ \E u \in NodeUpdates(pc, state, settings.intent_structurize_enabled, {}) : NodeReturn(u)

\* llm.astream in llm_summarize has delivered llm_text.
LlmSummarizeEnd ==
    /\ Running("llm_summarize")
    /\ \E u \in NodeUpdates(pc, state, settings.intent_structurize_enabled, {llm_text}) :
          NodeReturn(u)

\* llm.invoke in simple_chat: its content is what it streamed when it
\* streamed, else any reply.
SimpleChatEnd ==
    /\ Running("simple_chat")
    /\ \E u \in NodeUpdates(pc, state, settings.intent_structurize_enabled,
                            IF llm_n > 0 THEN {llm_text} ELSE ReplyTexts) :
          NodeReturn(u)

\* The graph's own on_chain_end event, the last of astream_events: its
\* output is the final state (which has the key final_summary) or, keyed by
\* node, has not.
GraphEnd ==
    /\ phase = "loop" /\ pc = END /\ stage = "pending"
    /\ \E values \in BOOLEAN :
          final_state' = IF values /\ "final_summary" \in DOMAIN state
                         THEN Some(Captured(state)) ELSE final_state
    /\ stage' = "ended"
    /\ UNCHANGED <<phase, out, streamed_token, accumulated_text, initial_state,
                   rerun_summaries, settings,
                   pc, state, visited, runs, llm_text, llm_n, failed_node, failed_error,
                   keeps_undeclared, bvars, pvars>>

\* A catch-up that sends final_summary again in full.
ChartPart_whole_summary(fstate, streamed, accumulated) ==
    IF IsSet(fstate) /\ streamed
    THEN LET final_summary == Get(fstate[1], "final_summary") IN
         IF TruthySeq(final_summary) /\ Len(final_summary[1]) > Len(accumulated)
         THEN final_summary[1]
         ELSE <<>>
    ELSE <<>>

\* The trailing token of agent_stream after the event loop: what final_summary
\* holds beyond the length of accumulated_text, when tokens were streamed.
ChartPart(fstate, streamed, accumulated) ==
    IF IsSet(fstate) /\ streamed
    THEN LET final_summary == Get(fstate[1], "final_summary") IN
         IF TruthySeq(final_summary) /\ Len(final_summary[1]) > Len(accumulated)
         THEN LET chart_part == SubSeq(final_summary[1], Len(accumulated) + 1,
                                       Len(final_summary[1]))
              IN  IF Blank(chart_part) THEN <<>> ELSE chart_part
         ELSE <<>>
    ELSE <<>>

\* The events agent_stream yields for the trailing token: one token event
\* when chart_part is non-blank, else none.
TrailingEvents(fstate, streamed, accumulated) ==
    LET chart_part == ChartPart(fstate, streamed, accumulated)
    IN  IF chart_part /= <<>> THEN <<Token(chart_part)>> ELSE <<>>

\* An end of stream without the replay of final_summary.
FallbackEvents_without_replay(final_summary) == <<Done>>

\* The end of the fallback of agent_stream once final_summary is known:
\* one token per character when it is non-empty, then [DONE].
FallbackEvents(final_summary) ==
    (IF TruthySeq(final_summary) THEN CharTokens(final_summary[1]) ELSE <<>>) \o <<Done>>

\* agent_stream after the event loop: the trailing token; then, when no token
\* was streamed, the fallback: final_summary from final_state or, if that is
\* empty, from a second execution of the graph (graph.astream), which may
\* also raise; then [DONE].
PostLoop ==
    /\ phase = "loop" /\ pc = END /\ stage = "ended"
    /\ LET trailing == TrailingEvents(final_state, streamed_token, accumulated_text)
           final_summary == IF IsSet(final_state) THEN Get(final_state[1], "final_summary")
                            ELSE None
       IN  IF streamed_token
           THEN /\ out' = out \o trailing \o <<Done>>
                /\ UNCHANGED runs
           ELSE IF TruthySeq(final_summary)
           THEN /\ out' = out \o FallbackEvents(final_summary)
                /\ UNCHANGED runs
           ELSE /\ runs' = runs + 1
                /\ \/ \E again \in rerun_summaries :
                         out' = out \o FallbackEvents(again)
                   \/ out' = out \o ExceptEvents
    /\ phase' = "closed"
    /\ UNCHANGED <<final_state, streamed_token, accumulated_text, initial_state,
                   rerun_summaries, settings,
                   pc, stage, state, visited, llm_text, llm_n, failed_node, failed_error,
                   keeps_undeclared, bvars, pvars>>

\* An exception leaves the graph run (a statement of the running node outside
\* its try block, or the framework): the except handler of agent_stream.
StreamException ==
    /\ phase = "loop" /\ pc \in NodeNames /\ stage = "running"
    /\ out' = out \o ExceptEvents
    /\ phase' = "closed"
    /\ UNCHANGED <<final_state, streamed_token, accumulated_text, initial_state,
                   rerun_summaries, settings,
                   gvars, bvars, pvars>>

Next ==
    \/ AgentStreamCall
    \/ NodeStart
    \/ ChatModelStream
    \/ ToolStart
    \/ IntentAnalysisEnd
    \/ VkdbSearchEnd
    \/ IntentStructurizeEnd
    \/ MysqlJoinEnd
    \/ DataAggregateEnd
    \/ LlmAnalyzeEnd
    \/ LlmSummarizeEnd
    \/ SimpleChatEnd
    \/ GraphEnd
    \/ PostLoop
    \/ StreamException

Spec == Init /\ [][Next]_vars

\* One request in which every step that can be taken is taken in the end:
\* the event loop is consumed to its end, and every collaborator call
\* returns or raises.
LiveSpec == Spec /\ WF_vars(Next)

\* ------------------------------------------ structurize_intents_batch
\* max_workers of the pool (intent_structurize_concurrency).
Concurrencies == {1, 2}

\* The items of a call.
Items == 1..Len(b_videos)
RunningItems == {i \in Items : b_task[i] = "running"}
QueuedItems == {i \in Items : b_task[i] = "queued"}

\* parse_single_intent_analysis: the result it returns for an item with
\* the given outcome of its completion call; overran tells whether elapsed
\* exceeded timeout (logged, not acted on).
parse_single_intent_analysis(material_id, outcome, overran) ==
    IF outcome = "success" THEN Result(material_id, TRUE, None)
    ELSE Result(material_id, FALSE, Some("parse failed"))

\* A collection loop that is left at the first finished future.
AllCollected_first_only(collected, videos) == Len(collected) >= 1

\* The condition under which the with block of structurize_intents_batch is
\* left: as_completed has yielded every submitted future.
AllCollected(collected, videos) == Len(collected) = Len(videos)

\* A collection loop that keeps only the results that succeeded.
CollectResult_successes_only(results, result) ==
    IF result.success THEN Append(results, result) ELSE results

\* results.append(result) in the collection loop.
CollectResult(results, result) == Append(results, result)

BatchInit ==
    /\ phase = "init" /\ out = <<>> /\ final_state = None
    /\ streamed_token = FALSE /\ accumulated_text = <<>>
    /\ initial_state = InitialState("hello", "") /\ rerun_summaries = {}
    /\ settings = [intent_structurize_enabled |-> TRUE]
    /\ pc = "" /\ stage = "pending" /\ state = InitialState("hello", "")
    /\ visited = <<>> /\ runs = 0 /\ llm_text = <<>> /\ llm_n = 0
    /\ failed_node = "" /\ failed_error = "" /\ keeps_undeclared = TRUE
    /\ BatchIdle
    /\ PureIdle

\* structurize_intents_batch up to the submission of every task: videos are
\* extracted; with none it returns []; load_intent_prompt or the client
\* constructor may raise; else one task per video is submitted.
BatchCall ==
    /\ b_pc = "init"
    /\ \E vkdb_response \in SearchResponses, concurrency \in Concurrencies, loaded \in BOOLEAN :
          LET videos == extract_videos_from_vkdb_response(vkdb_response) IN
          /\ b_response' = vkdb_response
          /\ b_concurrency' = concurrency
          /\ b_videos' = videos
          /\ IF Len(videos) = 0
             THEN /\ b_pc' = "returned"
                  /\ UNCHANGED <<b_task, b_outcome>>
             ELSE IF ~loaded
             THEN /\ b_pc' = "raised"
                  /\ UNCHANGED <<b_task, b_outcome>>
             ELSE /\ b_pc' = "collect"
                  /\ b_task' = [i \in 1..Len(videos) |-> "queued"]
                  /\ b_outcome' = [i \in 1..Len(videos) |-> [outcome |-> "", overran |-> FALSE]]
    /\ UNCHANGED <<b_collected, b_results, svars, gvars, pvars>>

\* A pool that starts a thread for every submitted task.
WorkerFree_unbounded(running, max_workers) == TRUE

\* ThreadPoolExecutor(max_workers=concurrency): a queued task starts only
\* while fewer than max_workers threads are busy.
WorkerFree(running, max_workers) == Cardinality(running) < max_workers

\* A free worker thread of the pool takes the oldest queued task.
WorkerStart ==
    /\ b_pc = "collect"
    /\ QueuedItems /= {}
    /\ WorkerFree(RunningItems, b_concurrency)
    /\ LET i == CHOOSE q \in QueuedItems : \A r \in QueuedItems : q <= r
       IN  b_task' = [b_task EXCEPT ![i] = "running"]
    /\ UNCHANGED <<b_pc, b_response, b_concurrency, b_videos, b_outcome, b_collected,
                   b_results, svars, gvars, pvars>>

\* parse_single_intent_analysis returns in a worker: its completion call
\* succeeded or raised, within the timeout or after it.
WorkerFinish ==
    /\ b_pc = "collect"
    /\ \E i \in RunningItems, outcome \in ItemOutcomes, overran \in BOOLEAN :
          /\ b_task' = [b_task EXCEPT ![i] = "done"]
          /\ b_outcome' = [b_outcome EXCEPT ![i] = [outcome |-> outcome, overran |-> overran]]
    /\ UNCHANGED <<b_pc, b_response, b_concurrency, b_videos, b_collected, b_results,
                   svars, gvars, pvars>>

\* A runner that labels the k-th collected result with the k-th submitted id.
SubmittedId_by_position(videos, collected, i) == videos[Len(collected) + 1]

\* The materialId task i was submitted with: the argument of its
\* parse_single_intent_analysis call and its value in future_to_video.
SubmittedId(videos, collected, i) == videos[i]

\* One iteration of `for future in as_completed(future_to_video)`: a finished
\* future is yielded and its result appended (future.result returns at once:
\* the future is done and parse_single_intent_analysis raises nothing).
Collect ==
    /\ b_pc = "collect"
    /\ \E i \in Items :
          /\ b_task[i] = "done"
          /\ \A k \in 1..Len(b_collected) : b_collected[k] /= i
          /\ b_collected' = Append(b_collected, i)
          /\ b_results' = CollectResult(b_results,
                parse_single_intent_analysis(SubmittedId(b_videos, b_collected, i),
                                             b_outcome[i].outcome,
                                             b_outcome[i].overran))
    /\ UNCHANGED <<b_pc, b_response, b_concurrency, b_videos, b_task, b_outcome, svars, gvars, pvars>>

\* as_completed is exhausted, the with block is left, results is returned.
BatchReturn ==
    /\ b_pc = "collect"
    /\ AllCollected(b_collected, b_videos)
    /\ b_pc' = "returned"
    /\ UNCHANGED <<b_response, b_concurrency, b_videos, b_task, b_outcome, b_collected,
                   b_results, svars, gvars, pvars>>

BatchNext ==
    \/ BatchCall
    \/ WorkerStart
    \/ WorkerFinish
    \/ Collect
    \/ BatchReturn

BatchSpec == BatchInit /\ [][BatchNext]_vars

\* ===================================================== properties: Spec
\* The positions of the error events and of the done events of the stream.
ErrorEvents == {i \in 1..Len(out) : out[i].type = "error"}
DoneEvents == {i \in 1..Len(out) : out[i].type = "done"}
\* The stream holds one error event, and it is the last but one, before done.
OneErrorThenDone ==
    /\ Cardinality(ErrorEvents) = 1
    /\ \A i \in ErrorEvents : i + 1 = Len(out) /\ out[i + 1].type = "done"
\* The nodes started so far in the run.
Executed == {visited[k] : k \in 1..Len(visited)}
\* The search tool of this run returned zero records.
ZeroRecords ==
    /\ phase /= "init"
    /\ IsSet(state.vkdb_response)
    /\ state.vkdb_response[1].data = <<>>

\* C1: in a run whose search returned zero records, final_summary is the
\* not-found message, vkdb_no_result is true, and none of mysql_join,
\* data_aggregate, llm_analyze has executed, up to the end of the run.
C1_ZeroRecordsEndTheRun ==
    ZeroRecords =>
        /\ state.final_summary = Some(NOT_FOUND)
        /\ state.vkdb_no_result = Some(TRUE)
        /\ Executed \cap {"mysql_join", "data_aggregate", "llm_analyze"} = {}

\* A finished request whose search returned zero records: the run ended
\* right after vkdb_search.
C1_Witness ==
    /\ ZeroRecords
    /\ phase = "closed"
    /\ visited = <<"intent_analysis", "vkdb_search">>

\* C2: every invocation of agent_stream, failed or not (settings load and
\* graph construction included), has yielded exactly one done event when it
\* ends, and that event is its last.
C2_EveryStreamEndsWithOneDone ==
    phase \in {"closed", "raised"} =>
        /\ Cardinality(DoneEvents) = 1
        /\ Last(out).type = "done"

\* C3: an error event of the stream is followed at once by done and by
\* nothing else, and a stream holds at most one error event.
C3_ErrorIsFollowedByDone ==
    /\ Cardinality(ErrorEvents) <= 1
    /\ \A i \in ErrorEvents : i + 1 = Len(out) /\ out[i + 1].type = "done"

\* A finished stream that holds an error event raised while llm_summarize
\* was running.
C3_Witness ==
    /\ phase = "closed"
    /\ ErrorEvents /= {}
    /\ pc = "llm_summarize"

\* The errors a node returns when its external call failed.
CallFailures == {"VikingDB search failed", "MySQL join failed", "Data aggregation failed",
                 "LLM analysis failed", "LLM summarization failed", "Simple chat failed"}

\* C4: when the external call of Search, Join, Aggregate, Analyze, Summarize
\* or SimpleChat fails and the node sets error, the finished stream holds a
\* single error event, immediately followed by done.
C4_NodeFailureIsSurfaced ==
    (phase = "closed" /\ failed_error \in CallFailures) => OneErrorThenDone

\* C5: once a node other than intent_structurize has set error, no further
\* node executes.
C5_NoNodeAfterError ==
    (failed_node /= "" /\ failed_node /= "intent_structurize") =>
        Last(visited) = failed_node

\* C6: when the batch stage ended with fewer than half of its items (at
\* least one) succeeded, neither data_aggregate nor llm_analyze executes in
\* that run.
C6_DegradeSkipsAggregateAndAnalyze ==
    (/\ phase /= "init"
     /\ TruthySeq(Get(state, "structured_intents"))
     /\ BelowHalf(state.structured_intents[1])) =>
        Executed \cap {"data_aggregate", "llm_analyze"} = {}

\* ================================================ properties: BatchSpec
\* The records of the response that have a join key and a source text.
SubmittedRecords ==
    {k \in 1..Len(b_response.data) : b_response.data[k].mid /= "" /\ b_response.data[k].text}

\* C7: a returned batch holds one result per submitted item (record with a
\* join key and a non-empty source text): none dropped, none reported twice.
C7_OneResultPerSubmittedItem ==
    b_pc = "returned" =>
        /\ Len(b_results) = Cardinality(SubmittedRecords)
        /\ Len(b_collected) = Len(b_results)
        /\ \A i \in 1..Cardinality(SubmittedRecords) :
              Cardinality({k \in 1..Len(b_collected) : b_collected[k] = i}) = 1

\* A returned batch of two items of which one succeeded and one failed.
C7_Witness ==
    /\ b_pc = "returned"
    /\ Len(b_results) = 2
    /\ \E j, k \in 1..2 : b_results[j].success /\ ~b_results[k].success

\* C8: no two entries of a returned batch carry the same materialId.
C8_ResultIdsAreUnique ==
    b_pc = "returned" =>
        \A j, k \in 1..Len(b_results) :
            j /= k => b_results[j].materialId /= b_results[k].materialId

\* C9: an item that ran longer than the per-item timeout is recorded as
\* failed, never as succeeded.
C9_OverrunIsNotSucceeded ==
    \A k \in 1..Len(b_results) :
        b_outcome[b_collected[k]].overran => ~b_results[k].success

\* C10: when the batch returns, no task is queued or running and the result
\* list is complete.
C10_ReturnsAfterAllResolved ==
    b_pc = "returned" =>
        /\ \A i \in Items : b_task[i] = "done"
        /\ Len(b_results) = Len(b_videos)

\* A batch that returned after two tasks shared the single worker of the pool.
C10_Witness ==
    /\ b_pc = "returned"
    /\ b_concurrency = 1
    /\ Len(b_videos) = 2
    /\ \A i \in Items : b_task[i] = "done"

\* ================================================ properties: C11..C20
\* C11 (batch side): the result recorded for an item is the one of its own
\* completion call, whatever happened to the other items.
C11_SiblingsKeepTheirResults ==
    \A k \in 1..Len(b_results) :
        LET i == b_collected[k] IN
        /\ b_results[k].materialId = b_videos[i]
        /\ b_results[k].success = (b_outcome[i].outcome = "success")

\* C11: item failures are not escalated: whenever intent_structurize has
\* stored a non-empty structured_intents, it holds one result per extracted
\* item and the node has set no error, even when every item failed.
C11_ItemFailureIsNotNodeFailure ==
    (phase /= "init" /\ TruthySeq(Get(state, "structured_intents"))) =>
        /\ Len(state.structured_intents[1])
              = Len(extract_videos_from_vkdb_response(state.vkdb_response[1]))
        /\ failed_node /= "intent_structurize"
        /\ (pc = "mysql_join" /\ stage = "pending") => state.error = None

\* intent_structurize has just returned two results, both failed, and no
\* error is set.
C11_Witness ==
    /\ pc = "mysql_join" /\ stage = "pending"
    /\ TruthySeq(Get(state, "structured_intents"))
    /\ Len(state.structured_intents[1]) = 2
    /\ \A k \in 1..2 : ~state.structured_intents[1][k].success
    /\ state.error = None

\* The positions of the token events of the stream.
TokenEvents == {i \in 1..Len(out) : out[i].type = "token"}

StrictPrefix(a, b) == Len(a) < Len(b) /\ SubSeq(b, 1, Len(a)) = a
\* The contents of the token events of the stream, concatenated in order.
RECURSIVE TokenTextOf(_)
TokenTextOf(events) ==
    IF events = <<>> THEN <<>>
    ELSE (IF Head(events).type = "token" THEN Head(events).content ELSE <<>>)
         \o TokenTextOf(Tail(events))
TokenText == TokenTextOf(out)
\* final_summary of the captured final state (None when nothing was captured).
CapturedSummary == IF IsSet(final_state) THEN Get(final_state[1], "final_summary") ELSE None

\* C13: when tokens were streamed and the streamed text is a strict prefix
\* of the captured final_summary, the finished stream ends with one trailing
\* token event holding exactly the remaining suffix, followed by done (so
\* the token events together spell final_summary).
C13_TrailingTokenIsTheSuffix ==
    (/\ phase = "closed"
     /\ streamed_token
     /\ TruthySeq(CapturedSummary)
     /\ StrictPrefix(accumulated_text, CapturedSummary[1])) =>
        /\ Len(out) >= 2
        /\ out[Len(out)].type = "done"
        /\ out[Len(out) - 1] = Token(SubSeq(CapturedSummary[1], Len(accumulated_text) + 1,
                                            Len(CapturedSummary[1])))
        /\ TokenText = CapturedSummary[1]

\* A finished stream whose last token is the chart markdown appended after
\* the streamed text.
C13_Witness ==
    /\ phase = "closed"
    /\ streamed_token
    /\ accumulated_text /= <<>>
    /\ TruthySeq(CapturedSummary)
    /\ CapturedSummary[1] = accumulated_text \o CHART_MD
    /\ out[Len(out) - 1] = Token(CHART_MD)

\* C14: when llm_summarize or simple_chat returned a non-empty final_summary
\* and no token was streamed, the finished stream holds token events, all
\* before its done event, whose contents spell that final_summary.
C14_FallbackReplaysTheFinalText ==
    (/\ phase = "closed"
     /\ ~streamed_token
     /\ Executed \cap TokenNodes /= {}
     /\ TruthySeq(state.final_summary)) =>
        /\ TokenText = state.final_summary[1]
        /\ DoneEvents = {Len(out)}
        /\ \A i \in TokenEvents : i < Len(out)

\* simple_chat replied two characters without streaming: the finished
\* stream replays them as two token events.
C14_Witness ==
    /\ phase = "closed"
    /\ ~streamed_token
    /\ "simple_chat" \in Executed
    /\ TruthySeq(state.final_summary)
    /\ Len(state.final_summary[1]) = 2
    /\ Cardinality(TokenEvents) = 2

\* The stream is status events, then token events, then one done event.
Rank(type) == CASE type = "status" -> 0 [] type = "token" -> 1 [] type = "done" -> 2
                [] OTHER -> 3
StatusTokensDone ==
    /\ \A i, j \in 1..Len(out) : i < j => Rank(out[i].type) <= Rank(out[j].type)
    /\ Cardinality(DoneEvents) = 1
    /\ ErrorEvents = {}

\* C15: when the search returned zero records, the finished stream is status
\* events, then token events spelling the not-found message, then done, with
\* no error event.
C15_ZeroRecordsStreamNotFound ==
    (phase = "closed" /\ ZeroRecords) =>
        /\ StatusTokensDone
        /\ TokenText = NOT_FOUND

\* The search of this run returned at least one record and no record yields a
\* join key.
NoJoinKey ==
    /\ phase /= "init"
    /\ IsSet(state.vkdb_response)
    /\ state.vkdb_response[1].data /= <<>>
    /\ extract_material_ids(state.vkdb_response[1]) = <<>>

\* mysql_join has executed and returned its update.
JoinReturned == "mysql_join" \in Executed /\ ~(pc = "mysql_join" /\ stage = "running")

\* C16: when the search returned records of which none yields a join key, the
\* join node runs with the empty material set without failing and the request
\* completes with a join result whose row_count is 0.
C16_EmptyMaterialSetJoins ==
    (NoJoinKey /\ JoinReturned) =>
        /\ failed_error /= "MySQL join failed"
        /\ IsSet(Get(state, "mysql_join_result"))
        /\ state.mysql_join_result[1].row_count = 0

\* ================================================= pure functions
\* Longest landscape_video value tried.
MaxUrlLen == 6
\* The characters of a landscape_video value: a digit, the characters of the
\* extension in both cases, the path and query separators, white space.
UrlChars == {"4", ".", "m", "M", "p", "/", "?", " "}
Urls == SeqsUpTo(UrlChars, MaxUrlLen)
Digits == {"0", "1", "2", "3", "4", "5", "6", "7", "8", "9"}
MP4 == <<".", "m", "p", "4">>

Smallest(S) == CHOOSE x \in S : \A y \in S : x <= y
Largest(S) == CHOOSE x \in S : \A y \in S : y <= x

\* str.strip()
WhiteSpace == {" ", "\n"}
StripText(text) ==
    LET I == {i \in 1..Len(text) : text[i] \notin WhiteSpace}
    IN  IF I = {} THEN <<>> ELSE SubSeq(text, Smallest(I), Largest(I))
\* str.lower()
Lower(text) == [i \in 1..Len(text) |-> IF text[i] = "M" THEN "m" ELSE text[i]]
\* text.rsplit(c, 1)[-1]
AfterLast(text, c) ==
    LET I == {i \in 1..Len(text) : text[i] = c}
    IN  IF I = {} THEN text ELSE SubSeq(text, Largest(I) + 1, Len(text))
\* text.rfind(pat) + 1: the position of the last occurrence, 0 when none.
RFind(text, pat) ==
    LET I == {i \in 1..Len(text) : /\ i + Len(pat) - 1 <= Len(text)
                                   /\ SubSeq(text, i, i + Len(pat) - 1) = pat}
    IN  IF I = {} THEN 0 ELSE Largest(I)
\* str.isdigit()
IsDigit(text) == text /= <<>> /\ \A i \in 1..Len(text) : text[i] \in Digits

\* urlsplit(raw).path for a value without scheme and fragment: a leading "//"
\* opens the network location, which ends at the next "/" or "?"; the path
\* ends at the first "?".
urlsplit_path(raw) ==
    LET netloc == Len(raw) >= 2 /\ raw[1] = "/" /\ raw[2] = "/"
        D == {i \in 3..Len(raw) : raw[i] \in {"/", "?"}}
        url == IF ~netloc THEN raw
               ELSE IF D = {} THEN <<>> ELSE SubSeq(raw, Smallest(D), Len(raw))
        Q == {i \in 1..Len(url) : url[i] = "?"}
    IN  IF Q = {} THEN url ELSE SubSeq(url, 1, Smallest(Q) - 1)

extract_material_id_from_landscape_video(landscape_video_url) ==
    LET raw == StripText(landscape_video_url) IN
    IF raw = <<>> THEN None
    ELSE LET path == urlsplit_path(raw)
             filename == StripText(AfterLast(IF path /= <<>> THEN path ELSE raw, "/"))
         IN  IF filename = <<>> THEN None
             ELSE LET pos == RFind(Lower(filename), MP4) IN
                  IF pos <= 1 THEN None
                  ELSE LET material_id == SubSeq(filename, 1, pos - 1) IN
                       IF ~IsDigit(material_id) THEN None ELSE Some(material_id)

StreamIdle ==
    /\ phase = "init" /\ out = <<>> /\ final_state = None
    /\ streamed_token = FALSE /\ accumulated_text = <<>>
    /\ initial_state = InitialState("hello", "") /\ rerun_summaries = {}
    /\ settings = [intent_structurize_enabled |-> TRUE]
    /\ pc = "" /\ stage = "pending" /\ state = InitialState("hello", "")
    /\ visited = <<>> /\ runs = 0 /\ llm_text = <<>> /\ llm_n = 0
    /\ failed_node = "" /\ failed_error = "" /\ keeps_undeclared = TRUE

\* ---- compose_mysql_sql
\* Longest influencer text tried.
MaxInfluencerLen == 3
\* The characters of an influencer text: a letter, the underscore and the
\* space of the allow-list, and two characters outside it.
InfluencerChars == {"a", "_", " ", ";", "\n"}
\* The character class of INFLUENCER_ALLOWED, among InfluencerChars.
AllowedClass == {"a", "_", " "}
\* INFLUENCER_ALLOWED.match(text) for ^[class]+$: "$" matches at the end of
\* the text and also just before a newline that ends it.
INFLUENCER_ALLOWED(text) ==
    LET body == IF text /= <<>> /\ Last(text) = "\n"
                THEN SubSeq(text, 1, Len(text) - 1) ELSE text
    IN  body /= <<>> /\ \A i \in 1..Len(body) : body[i] \in AllowedClass
\* escape_like_pattern: the backslash, % and _ get a backslash in front.
RECURSIVE escape_like_pattern(_)
escape_like_pattern(s) ==
    IF s = <<>> THEN <<>>
    ELSE (IF Head(s) \in {"\\", "%", "_"} THEN <<"\\", Head(s)>> ELSE <<Head(s)>>)
         \o escape_like_pattern(Tail(s))
\* compose_mysql_sql: the statement is its LIKE pattern and its IN clause.
compose_mysql_sql(influencer, material_ids, require_in) ==
    IF influencer = <<>> THEN [error |-> Some("influencer is empty"), sql |-> None]
    ELSE IF ~INFLUENCER_ALLOWED(influencer)
         THEN [error |-> Some("influencer contains illegal chars"), sql |-> None]
    ELSE [error |-> None,
          sql |-> Some([like |-> escape_like_pattern(influencer),
                        in_clause |-> IF material_ids = <<>> /\ require_in THEN <<"1=0">>
                                      ELSE IF material_ids = <<>> THEN <<"1=1">>
                                      ELSE <<"materialId in">> \o material_ids])]
\* vkdb_response_to_mysql_join up to the row query, for a response that
\* yields material_ids: queried tells whether query_mysql was called.
vkdb_response_to_mysql_join(raw_influencer, material_ids, require_in) ==
    LET influencer == StripText(raw_influencer) IN
    IF influencer = <<>>
    THEN [error |-> Some("influencer is required"), sql |-> None, queried |-> FALSE]
    ELSE IF material_ids = <<>>
         THEN [error |-> Some("No material_ids extracted"), sql |-> None, queried |-> FALSE]
    ELSE LET sql_out == compose_mysql_sql(influencer, material_ids, require_in)
         IN  [error |-> sql_out.error, sql |-> sql_out.sql, queried |-> IsSet(sql_out.sql)]

\* ---- parse_single_intent_analysis, step by step
\* Field values a completion may deliver, as whole texts.
TagValues == {"Unknown", "UNKNOWN", "Tag_a", "Fast", "fast", "Trust", "unknown"}
\* _TAG_RE.match(v) for ^[A-Za-z][A-Za-z0-9_]*$ over the texts used here
\* ("", " ", "9x" and "a -> b" do not match).
TAG_RE(v) == v \in TagValues
\* str.lower() over the texts used here.
LowerValue(v) ==
    CASE v \in {"Unknown", "UNKNOWN"} -> "unknown"
      [] v = "Tag_a" -> "tag_a"
      [] v = "Fast" -> "fast"
      [] v = "Trust" -> "trust"
      [] OTHER -> v
\* "->" in v
HasArrow(v) == v = "a -> b"

\* A validator that lets the placeholder through.
require_non_empty_accepting_unknown(value) ==
    LET v == Strip(value) IN [ok |-> v /= "", v |-> v]

\* _require_non_empty: the stripped value, refused when empty or "unknown"
\* in any case.
require_non_empty(value) ==
    LET v == Strip(value)
    IN  [ok |-> v /= "" /\ LowerValue(v) /= "unknown", v |-> v]
\* _require_tag
require_tag(value) ==
    LET r == require_non_empty(value) IN [ok |-> r.ok /\ TAG_RE(r.v), v |-> r.v]

PacingAllowed == {"Fast", "Moderate", "Slow"}
EmotionAllowed == {"Excitement", "Anxiety", "Curiosity", "Humor", "Trust"}

\* v[:5]
FirstFive(list) == SubSeq(list, 1, IF Len(list) < 5 THEN Len(list) ELSE 5)

\* IntentAnalysisOutput validation of a payload: ok, and the validated value
\* (texts stripped, core_selling_points cut to its first five).
Validate(p) ==
    LET sa == require_tag(p.script_archetype)
        nc == require_non_empty(p.narrative_chain)
        pa == require_non_empty(p.pacing)
        os == require_tag(p.opening_strategy)
        ct == require_tag(p.closing_trigger)
        de == require_non_empty(p.dominant_emotion)
        five == FirstFive(p.core_selling_points)
    IN  [ok |-> /\ sa.ok
                /\ nc.ok /\ HasArrow(nc.v)
                /\ pa.ok /\ pa.v \in PacingAllowed
                /\ os.ok /\ ct.ok
                /\ p.core_selling_points /= <<>>
                /\ \A i \in 1..Len(five) : require_tag(five[i]).ok
                /\ de.ok /\ de.v \in EmotionAllowed
                /\ IsSet(p.is_innovative),
         value |-> [script_archetype |-> sa.v, narrative_chain |-> nc.v, pacing |-> pa.v,
                    opening_strategy |-> os.v, closing_trigger |-> ct.v,
                    core_selling_points |-> [i \in 1..Len(five) |-> require_tag(five[i]).v],
                    dominant_emotion |-> de.v, is_innovative |-> p.is_innovative]]

\* The payloads a completion may deliver.
Payloads ==
    [script_archetype : {"", "Unknown", "Tag_a", "9x"},
     narrative_chain : {" ", "unknown", "a -> b", "Tag_a"},
     pacing : {"", "Fast", "fast", "Unknown"},
     opening_strategy : {"Tag_a", "UNKNOWN"},
     closing_trigger : {"Tag_a", " "},
     core_selling_points : {<<>>, <<"Tag_a">>, <<"Tag_a", "">>, <<"Unknown">>,
                            <<"Tag_a", "Tag_a", "Tag_a", "Tag_a", "Tag_a", "">>},
     dominant_emotion : {"Trust", "Unknown", "Tag_a"},
     is_innovative : {None, Some(TRUE)}]
GoodPayload ==
    [script_archetype |-> "Tag_a", narrative_chain |-> "a -> b", pacing |-> "Fast",
     opening_strategy |-> "Tag_a", closing_trigger |-> "Tag_a",
     core_selling_points |-> <<"Tag_a">>, dominant_emotion |-> "Trust",
     is_innovative |-> Some(TRUE)]
\* What structured_llm.invoke may do: deliver a payload (validated by the
\* output parser), raise, or return None (no structured output produced).
Delivers(p) == [kind |-> "payload", payload |-> Some(p)]
Fails(kind) == [kind |-> kind, payload |-> None]
StructuredReplies == {Delivers(p) : p \in Payloads} \cup {Fails("raises"), Fails("none")}
\* What the fallback llm.invoke may do: raise, deliver a text without a JSON
\* object, one that json.loads refuses, or the JSON of a payload.
FallbackReplies ==
    {Fails("raises"), Fails("no_json"), Fails("bad_json"), Delivers(GoodPayload),
     Delivers([GoodPayload EXCEPT !.pacing = "Unknown"]),
     Delivers([GoodPayload EXCEPT !.core_selling_points = <<>>])}
\* The reply delivers a payload that validation accepts.
Valid(reply) == reply.kind = "payload" /\ Validate(reply.payload[1]).ok

\* A parser that asks for the fallback completion whatever the first gave.
NeedsFallback_always(structured_failed) == TRUE

\* except Exception as structured_error: the fallback is entered only when
\* structured_llm.invoke raised.
NeedsFallback(structured_failed) == structured_failed

\* parse_single_intent_analysis with its completion calls counted.
parse_single_intent_analysis_steps(material_id, blank, first, second) ==
    IF blank
    THEN [result |-> Result(material_id, FALSE, Some("Empty intent_analysis")),
          structured_intent |-> None, calls |-> 0]
    ELSE LET structured_failed == first.kind = "raises" \/ (first.kind = "payload" /\ ~Valid(first))
             failure(n) == [result |-> Result(material_id, FALSE, Some("parse failed")),
                            structured_intent |-> None, calls |-> n]
             success(n, value) == [result |-> Result(material_id, TRUE, None),
                                   structured_intent |-> Some(value), calls |-> n]
         IN  IF NeedsFallback(structured_failed)
             THEN IF second.kind /= "payload" THEN failure(2)
                  ELSE IF ~Valid(second) THEN failure(2)
                  ELSE success(2, Validate(second.payload[1]).value)
             ELSE IF Valid(first)
                  THEN success(1, Validate(first.payload[1]).value)
                  ELSE failure(1)

ParseInputs ==
    {[material_id |-> "101", blank |-> b, first |-> f, second |-> s] :
        b \in BOOLEAN, f \in StructuredReplies, s \in FallbackReplies}

\* ---- intent_analysis_node and route_after_intent
\* A call of intent_analysis on a fresh request with one reply of the
\* structured completion call.
ClassifyInputs ==
    {[user_message |-> m, reply |-> r, keeps |-> k] :
        m \in UserInputs, r \in IntentReplies, k \in BOOLEAN}

ComposeInputs ==
    {[influencer |-> i, material_ids |-> m, require_in |-> q] :
        i \in SeqsUpTo(InfluencerChars, MaxInfluencerLen),
        m \in {<<>>} \cup {<<x>> : x \in MaterialIds}, q \in BOOLEAN}

\* The partial updates tried on Merge: the empty update, what each node
\* returns for a fresh request, and updates that carry a messages delta.
MessagesDelta == <<[role |-> "ai", content |-> "hello"]>>
MergeUpdates ==
    {<<>>, [messages |-> MessagesDelta],
     [messages |-> MessagesDelta, final_summary |-> Some(<<"a">>)]}
    \cup UNION {NodeUpdates(n, InitialState(r[1], r[2]), TRUE, ReplyTexts) :
                   n \in NodeNames, r \in Requests}
\* The states tried: a fresh request's state, and one update later.
MergeStates ==
    LET fresh == {InitialState(r[1], r[2]) : r \in Requests}
    IN  fresh \cup {Merge(s, u, k) : s \in fresh, u \in MergeUpdates, k \in BOOLEAN}
MergeInputs == {[s |-> s, u |-> u, keeps |-> k] :
                   s \in MergeStates, u \in MergeUpdates, k \in BOOLEAN}

\* ---- the trailing token of agent_stream
\* Longest text tried as accumulated_text and as final_summary.
MaxSummaryLen == 2
\* The texts tried: two letters and white space.
SummaryTexts == SeqsUpTo({"a", "b", " "}, MaxSummaryLen)
\* final_state after the event loop: None, a dict without final_summary, or
\* one whose final_summary is None or a text; with streamed_token and
\* accumulated_text.
TrailingInputs ==
    {[final_state |-> fs, streamed_token |-> st, accumulated_text |-> acc] :
        fs \in {None, Some(<<>>)} \cup {Some([final_summary |-> None])}
               \cup {Some([final_summary |-> Some(x)]) : x \in SummaryTexts},
        st \in BOOLEAN, acc \in SummaryTexts}

PureInit ==
    /\ StreamIdle /\ BatchIdle
    /\ f_pc = "ready" /\ f_result = <<>>
    /\ \/ f_fn = "extract_material_id_from_landscape_video" /\ f_args \in Urls
       \/ f_fn = "Merge" /\ f_args \in MergeInputs
       \/ f_fn = "intent_analysis" /\ f_args \in ClassifyInputs
       \/ f_fn = "parse_single_intent_analysis" /\ f_args \in ParseInputs
       \/ f_fn = "compose_mysql_sql" /\ f_args \in ComposeInputs
       \/ f_fn = "vkdb_response_to_mysql_join" /\ f_args \in ComposeInputs
       \/ f_fn = "agent_stream.trailing" /\ f_args \in TrailingInputs

Returns(value) ==
    /\ f_pc = "ready"
    /\ f_pc' = "returned"
    /\ f_result' = value
    /\ UNCHANGED <<f_fn, f_args, svars, gvars, bvars>>

ExtractMaterialId ==
    /\ f_fn = "extract_material_id_from_landscape_video"
    /\ Returns(extract_material_id_from_landscape_video(f_args))

\* The executor merges the same update once, and once more.
MergeTwice ==
    /\ f_fn = "Merge"
    /\ LET once == Merge(f_args.s, f_args.u, f_args.keeps)
       IN  Returns([once |-> once, twice |-> Merge(once, f_args.u, f_args.keeps)])

ComposeMysqlSql ==
    /\ f_fn = "compose_mysql_sql"
    /\ Returns(compose_mysql_sql(f_args.influencer, f_args.material_ids, f_args.require_in))

VkdbResponseToMysqlJoin ==
    /\ f_fn = "vkdb_response_to_mysql_join"
    /\ Returns(vkdb_response_to_mysql_join(f_args.influencer, f_args.material_ids,
                                           f_args.require_in))

\* intent_analysis returns its update, the executor merges it and evaluates
\* route_after_intent.
ClassifyAndRoute ==
    /\ f_fn = "intent_analysis"
    /\ LET s == InitialState(f_args.user_message, "")
           u == IntentAnalysisNode(s, f_args.reply)
       IN  Returns([update |-> u, next |-> route_after_intent(Merge(s, u, f_args.keeps))])

ParseSingleIntentAnalysis ==
    /\ f_fn = "parse_single_intent_analysis"
    /\ Returns(parse_single_intent_analysis_steps(f_args.material_id, f_args.blank,
                                                  f_args.first, f_args.second))

\* agent_stream after the event loop, up to the trailing token.
TrailingToken ==
    /\ f_fn = "agent_stream.trailing"
    /\ Returns(TrailingEvents(f_args.final_state, f_args.streamed_token, f_args.accumulated_text))

PureNext ==
    \/ TrailingToken
    \/ ClassifyAndRoute
    \/ ParseSingleIntentAnalysis
    \/ ExtractMaterialId
    \/ MergeTwice
    \/ ComposeMysqlSql
    \/ VkdbResponseToMysqlJoin

PureSpec == PureInit /\ [][PureNext]_vars

\* ================================================ properties: PureSpec
Returned(fn) == f_fn = fn /\ f_pc = "returned"

\* The last path component of a value, its query string ignored.
LastComponent(url) ==
    LET raw == StripText(url)
        Q == {i \in 1..Len(raw) : raw[i] = "?"}
    IN  AfterLast(IF Q = {} THEN raw ELSE SubSeq(raw, 1, Smallest(Q) - 1), "/")
\* The component is a non-empty all-digit stem followed by the .mp4 extension.
DigitStemMp4(component) ==
    /\ Len(component) > Len(MP4)
    /\ IsDigit(SubSeq(component, 1, Len(component) - Len(MP4)))
    /\ Lower(SubSeq(component, Len(component) - Len(MP4) + 1, Len(component))) = MP4

\* C17: extract_material_id_from_landscape_video returns a key exactly when the
\* last path component (query string ignored) is a non-empty all-digit stem
\* followed by the .mp4 extension, the key is that stem, and every other value
\* gives None.
C17_KeyIffDigitStemMp4 ==
    Returned("extract_material_id_from_landscape_video") =>
        LET component == LastComponent(f_args) IN
        IF DigitStemMp4(component)
        THEN f_result = Some(SubSeq(component, 1, Len(component) - Len(MP4)))
        ELSE f_result = None

\* A returned key is a non-empty string of digits.
C17_ReturnedKeyIsDigits ==
    (Returned("extract_material_id_from_landscape_video") /\ IsSet(f_result)) =>
        IsDigit(f_result[1])

\* ================================================ properties: ordering
\* C18: inside the event loop every underlying event that produces an output
\* event has it appended in the very step that consumes it, behind everything
\* emitted before: a node start appends its status, the tool start appends the
\* tool status, a non-empty chunk of a terminal node appends one token with
\* that chunk; no step appends more than one event or alters an earlier one.
C18_OutputFollowsEachEvent ==
    [][(phase = "loop" /\ phase' = "loop") =>
          /\ Len(out') <= Len(out) + 1
          /\ SubSeq(out', 1, Len(out)) = out
          /\ (visited' /= visited /\ StatusFor(pc) /= "") =>
                out' = Append(out, Status(StatusFor(pc)))
          /\ (visited' = visited /\ pc = "vkdb_search" /\ llm_n = 0 /\ llm_n' = 1) =>
                out' = Append(out, Status("calling tool"))
          /\ (pc \in TokenNodes /\ Len(llm_text') > Len(llm_text)) =>
                out' = Append(out, Token(SubSeq(llm_text', Len(llm_text) + 1, Len(llm_text'))))
      ]_vars
\* The status of llm_summarize, then two tokens, emitted one by one in the loop.
C18_Witness ==
    /\ phase = "loop" /\ Len(out) >= 3
    /\ out[Len(out) - 2] = Status(StatusFor("llm_summarize"))
    /\ out[Len(out) - 1].type = "token"
    /\ out[Len(out)].type = "token"

\* C19: merging the empty update leaves every field of the state unchanged,
\* and merging the same update twice gives, for every field other than
\* messages, the state that merging it once gives.
C19_MergeIsIdempotent ==
    Returned("Merge") =>
        /\ (DOMAIN f_args.u = {} => f_result.once = f_args.s)
        /\ DOMAIN f_result.twice = DOMAIN f_result.once
        /\ \A k \in DOMAIN f_result.once \ {"messages"} :
              f_result.twice[k] = f_result.once[k]
\* A non-empty update that changed final_summary and grew messages twice.
C19_Witness ==
    /\ Returned("Merge")
    /\ "final_summary" \in DOMAIN f_args.u
    /\ f_result.once.final_summary /= f_args.s.final_summary
    /\ Len(f_result.twice.messages) > Len(f_result.once.messages)
\* The empty update, merged into a state that is not a fresh one.
C19_WitnessEmpty ==
    /\ Returned("Merge") /\ DOMAIN f_args.u = {}
    /\ IsSet(f_args.s.intent)

\* The text is non-empty and each of its characters is on the allow-list.
OnlyAllowListed(text) == text /= <<>> /\ \A i \in 1..Len(text) : text[i] \in AllowedClass

\* C20: compose_mysql_sql produces a statement only for an influencer text
\* made of allow-listed characters; for an empty text or one with a character
\* outside the allow-list it fails with an error and produces no statement.
C20_StatementOnlyForAllowListedText ==
    Returned("compose_mysql_sql") =>
        IF OnlyAllowListed(f_args.influencer)
        THEN IsSet(f_result.sql) /\ ~IsSet(f_result.error)
        ELSE ~IsSet(f_result.sql) /\ IsSet(f_result.error)

\* Through vkdb_response_to_mysql_join the row query is called only with a
\* statement, and the statement's pattern comes from an allow-listed text.
C20_JoinQueriesOnlyAllowListedText ==
    Returned("vkdb_response_to_mysql_join") =>
        /\ f_result.queried = IsSet(f_result.sql)
        /\ IsSet(f_result.sql) = ~IsSet(f_result.error)
        /\ IsSet(f_result.sql) => OnlyAllowListed(StripText(f_args.influencer))

\* ============================================ properties: C21..C30
\* The request of this run was classified as simple_chat.
ClassifiedSimpleChat ==
    /\ phase \in {"loop", "closed"}
    /\ state.intent = Some("simple_chat")
PipelineNodes == {"vkdb_search", "intent_structurize", "mysql_join", "data_aggregate",
                  "llm_analyze", "llm_summarize"}
\* An exception left the graph execution: the one of the event loop (the node
\* was still running) or the second one, of the fallback.
ExceptionEscaped == phase = "closed" /\ (stage = "running" \/ runs > 1)

C22_UnparseableRoutesToSimpleChat ==
    (Returned("intent_analysis") /\ ~f_args.reply.ok) => f_result.next = "simple_chat"

\* For a message without a search keyword a failed classification does route
\* to simple_chat.
C22_NoKeywordRoutesToSimpleChat ==
    (Returned("intent_analysis") /\ ~f_args.reply.ok /\ ~HasKeyword(f_args.user_message)) =>
        f_result.next = "simple_chat"

\* C23: at every moment of a batch run the number of items whose transform
\* is in flight is at most the configured concurrency.
C23_InFlightAtMostConcurrency ==
    b_pc \in {"collect", "returned"} /\ b_task /= <<>> =>
        Cardinality(RunningItems) <= b_concurrency
\* The pool is full while an item still waits.
C23_Witness ==
    /\ b_pc = "collect"
    /\ Cardinality(RunningItems) = b_concurrency
    /\ QueuedItems /= {}

\* C24: every collected result carries the materialId of the submitted item
\* whose transform produced it, and that item's outcome, in every completion
\* order.
C24_ResultCarriesItsItemsId ==
    /\ Len(b_results) = Len(b_collected)
    /\ \A k \in 1..Len(b_results) :
          /\ b_results[k].materialId = b_videos[b_collected[k]]
          /\ b_results[k].success = (b_outcome[b_collected[k]].outcome = "success")
\* Two items with different ids, completed in the reverse of their submission
\* order, one succeeded and one failed.
C24_Witness ==
    /\ b_pc = "returned"
    /\ b_collected = <<2, 1>>
    /\ b_videos[1] /= b_videos[2]
    /\ b_results[1].success /\ ~b_results[2].success

\* The structured attempt of this call failed: it raised, or its payload was
\* refused by validation.
StructuredFailed ==
    f_args.first.kind = "raises" \/ (f_args.first.kind = "payload" /\ ~Valid(f_args.first))
\* The fallback payload is missing or fails validation.
FallbackFailed == ~Valid(f_args.second)

\* C25: an item costs at most two completion calls, the second only after the
\* structured attempt failed; when the fallback payload is missing or fails
\* validation the item is recorded failed with its error, after exactly those
\* two calls.
C25_AtMostOneFallback ==
    Returned("parse_single_intent_analysis") =>
        /\ f_result.calls <= 2
        /\ f_result.calls = 2 => StructuredFailed
        /\ (f_result.calls = 2 /\ FallbackFailed) =>
              ~f_result.result.success /\ IsSet(f_result.result.error)
\* The structured payload failed validation and so did the fallback's.
C25_Witness ==
    /\ Returned("parse_single_intent_analysis")
    /\ f_args.first.kind = "payload" /\ f_args.second.kind = "payload"
    /\ f_result.calls = 2 /\ FallbackFailed
    /\ ~f_result.result.success

\* The required-field contract on a recorded payload.
NotPlaceholder(v) == v /= "" /\ v /= " " /\ LowerValue(v) /= "unknown"
RequiredFieldContract(payload) ==
    /\ \A k \in {"script_archetype", "narrative_chain", "pacing", "opening_strategy",
                 "closing_trigger", "dominant_emotion"} : NotPlaceholder(payload[k])
    /\ payload.pacing \in PacingAllowed
    /\ payload.dominant_emotion \in EmotionAllowed
    /\ Len(payload.core_selling_points) >= 1
    /\ \A i \in 1..Len(payload.core_selling_points) :
          NotPlaceholder(payload.core_selling_points[i])

\* C26: an item is recorded succeeded only with a payload that satisfies the
\* required-field contract (no empty or 'Unknown' text, pacing and
\* dominant_emotion in their closed sets, at least one core selling point),
\* and an item with empty source text is recorded failed.
C26_SuccessMeetsTheContract ==
    Returned("parse_single_intent_analysis") =>
        /\ f_result.result.success =>
              /\ IsSet(f_result.structured_intent)
              /\ RequiredFieldContract(f_result.structured_intent[1])
        /\ f_args.blank => ~f_result.result.success
\* A success whose payload went through validation: six selling points of
\* which the recorded five conform.
C26_Witness ==
    /\ Returned("parse_single_intent_analysis")
    /\ f_result.result.success /\ f_result.calls = 1
    /\ Len(f_args.first.payload[1].core_selling_points) = 6
\* An item with empty source text.
C26_WitnessEmptyText ==
    Returned("parse_single_intent_analysis") /\ f_args.blank /\ f_result.calls = 0

\* C27: once final_summary holds a non-empty value, no later node update
\* changes it.
C27_FinalSummaryIsNotOverwritten ==
    [][TruthySeq(state.final_summary) => state'.final_summary = state.final_summary]_vars
\* A run that ended with the summary llm_summarize wrote after the search
\* pipeline.
C27_Witness ==
    /\ phase = "closed" /\ TruthySeq(state.final_summary)
    /\ Last(visited) = "llm_summarize" /\ "mysql_join" \in Executed

\* C28: in every state of a run, vkdb_no_result = true implies that
\* mysql_join_result and aggregated_stats are unset.
C28_NoResultLeavesJoinAndStatsUnset ==
    TruthyBool(Get(state, "vkdb_no_result")) =>
        /\ ~IsSet(Get(state, "mysql_join_result"))
        /\ ~IsSet(Get(state, "aggregated_stats"))
\* The run with the flag raised has ended.
C28_Witness ==
    /\ phase = "closed" /\ TruthyBool(Get(state, "vkdb_no_result"))
    /\ Last(visited) = "vkdb_search"

\* C29: when intent_analysis returns and route_after_intent is evaluated,
\* intent is vkdb_search or simple_chat, whatever the completion call gave;
\* and once set, intent is changed by no later node.
C29_IntentIsClassifiedAndKept ==
    [][/\ (pc = "intent_analysis" /\ stage = "running" /\ stage' = "pending") =>
              state'.intent \in {Some("vkdb_search"), Some("simple_chat")}
       /\ IsSet(state.intent) => state'.intent = state.intent
      ]_vars
\* A search run that went through the whole pipeline with its intent kept.
C29_Witness ==
    /\ phase = "closed" /\ state.intent = Some("vkdb_search")
    /\ Last(visited) = "llm_summarize" /\ "data_aggregate" \in Executed

\* The running node n returns in this step.
NodeReturns(n) == pc = n /\ stage = "running" /\ stage' = "pending"

\* C30: when mysql_join returns, the executor goes to data_aggregate if and
\* only if structured_intents is non-empty in the state, else to
\* llm_summarize; data_aggregate is followed by llm_analyze and llm_analyze
\* by llm_summarize.
C30_JoinRoutesOnStructuredItems ==
    [][/\ NodeReturns("mysql_join") =>
              pc' = IF TruthySeq(Get(state', "structured_intents"))
                    THEN "data_aggregate" ELSE "llm_summarize"
       /\ NodeReturns("data_aggregate") => pc' = "llm_analyze"
       /\ NodeReturns("llm_analyze") => pc' = "llm_summarize"
      ]_vars
\* A run through the join, the aggregate, the analysis and the summary.
C30_Witness ==
    /\ Len(visited) = 7
    /\ SubSeq(visited, 4, 7) = <<"mysql_join", "data_aggregate", "llm_analyze", "llm_summarize">>
    /\ TruthySeq(Get(state, "structured_intents"))
\* A run that went from the join straight to the summary.
C30_WitnessSummarize ==
    /\ Len(visited) = 5
    /\ SubSeq(visited, 4, 5) = <<"mysql_join", "llm_summarize">>
    /\ ~TruthySeq(Get(state, "structured_intents"))

\* ================================================ properties: C31..C40
Disabled == phase /= "init" /\ ~settings.intent_structurize_enabled

\* C31: with the structurize feature disabled, intent_structurize makes no
\* batch call and returns an empty update (the state is as it was), the run
\* goes on to mysql_join and from there to llm_summarize, and neither
\* data_aggregate nor llm_analyze executes.
C31_DisabledStructurizeIsSkipped ==
    [][/\ (Disabled /\ NodeReturns("intent_structurize")) =>
              /\ ~IntentStructurizeCallsBatch(state, settings.intent_structurize_enabled)
              /\ state' = state
              /\ pc' = "mysql_join"
       /\ (Disabled /\ NodeReturns("mysql_join")) => pc' = "llm_summarize"
       /\ (Disabled /\ stage' = "running") =>
              pc' \notin {"data_aggregate", "llm_analyze"}
      ]_vars
\* A finished request that ran with the feature disabled through
\* intent_structurize, mysql_join and llm_summarize.
C31_Witness ==
    /\ Disabled
    /\ phase = "closed"
    /\ visited = <<"intent_analysis", "vkdb_search", "intent_structurize",
                   "mysql_join", "llm_summarize">>
    /\ TruthySeq(state.final_summary)

\* C32: a node starts only when no node is running, so at most one node
\* executes at a time; and when a node returns, the graph schedules exactly
\* one successor, a node or the end, which is the one that comes next.
C32_OneNodeAtATime ==
    [][/\ visited' /= visited =>
              /\ stage = "pending" /\ stage' = "running"
              /\ pc' = pc /\ visited' = Append(visited, pc)
       /\ \A n \in NodeNames :
              NodeReturns(n) =>
                  /\ Successors(n, state', settings.intent_structurize_enabled) = {pc'}
                  /\ pc' \in (NodeNames \ {n}) \cup {END}
      ]_vars
\* llm_analyze runs as the sixth node of the run, the five before it having
\* returned.
C32_Witness ==
    /\ phase = "loop" /\ pc = "llm_analyze" /\ stage = "running"
    /\ Len(visited) = 6

\* The replies of the collaborators called after the batch.
RepliesAfterBatch ==
    [mysql : MysqlReplies, aggregate : {"fail", "header", "rows"}, analyze : AnalyzeReplies,
     summarize : SummarizeReplies, text : ReplyTexts]
\* One reply per collaborator: the batch reply b, the later replies d; the
\* classifier and the search have replied before.
RepliesWith(b, d) ==
    [intent |-> [ok |-> FALSE, intent |-> "", query |-> None, influencer |-> None],
     method |-> "multi_modal",
     search |-> [ok |-> FALSE, resp |-> [data |-> <<>>]],
     batch |-> b, mysql |-> d.mysql, aggregate |-> d.aggregate, analyze |-> d.analyze,
     summarize |-> d.summarize, text |-> d.text]

\* C33: two runs with the same state and the same replies of every
\* collaborator, which differ only in the order in which the batch items
\* completed, execute the same sequence of nodes.
C33_NodeSequenceIgnoresCompletionOrder ==
    (/\ Running("intent_structurize")
     /\ IntentStructurizeCallsBatch(state, settings.intent_structurize_enabled)) =>
        LET videos == extract_videos_from_vkdb_response(state.vkdb_response[1])
            n == Len(videos)
            enabled == settings.intent_structurize_enabled
            run(o, p, d) ==
                RunFrom(pc, state, enabled, keeps_undeclared,
                        RepliesWith([ok |-> TRUE, results |-> BatchResults(videos, o, p)], d))
        IN  \A o \in [1..n -> ItemOutcomes] : \A p1, p2 \in Perms(n) :
            \A d \in RepliesAfterBatch : run(o, p1, d) = run(o, p2, d)
\* A run whose batch yielded the second item first, one item succeeded and
\* one failed, and which went on to data_aggregate.
C33_Witness ==
    /\ phase = "loop" /\ pc = "data_aggregate"
    /\ TruthySeq(Get(state, "structured_intents"))
    /\ LET videos == extract_videos_from_vkdb_response(state.vkdb_response[1])
           items == state.structured_intents[1]
       IN  /\ Len(items) = 2
           /\ items[1].materialId = videos[2] /\ items[2].materialId = videos[1]
           /\ items[1].materialId /= items[2].materialId
           /\ items[1].success /\ ~items[2].success

\* C34: after the merge of a partial update, every field of the state that
\* the update does not carry has the value it had before.
C34_AbsentFieldsAreKept ==
    Returned("Merge") =>
        \A k \in DOMAIN f_args.s \ DOMAIN f_args.u :
            k \in DOMAIN f_result.once /\ f_result.once[k] = f_args.s[k]
\* An update without error that changed intent, merged into a state whose
\* error was set: error is still set.
C34_Witness ==
    /\ Returned("Merge")
    /\ IsSet(f_args.s.error) /\ "error" \notin DOMAIN f_args.u
    /\ "intent" \in DOMAIN f_args.u
    /\ f_result.once.intent /= f_args.s.intent
    /\ f_result.once.error = f_args.s.error

\* The nodes other than llm_summarize and simple_chat.
PipelineStages == {"intent_analysis", "vkdb_search", "intent_structurize", "mysql_join",
                   "data_aggregate", "llm_analyze"}
\* Node n starts in this step.
NodeStarts(n) == pc = n /\ stage = "pending" /\ stage' = "running"

\* C35: the start of each of intent_analysis, vkdb_search,
\* intent_structurize, mysql_join, data_aggregate and llm_analyze yields a
\* status event with the phrase fixed for that node.
C35_EveryStageStartYieldsStatus ==
    [][\A n \in PipelineStages :
          NodeStarts(n) =>
              /\ StatusFor(n) /= ""
              /\ out' = Append(out, Status(StatusFor(n)))
      ]_vars
\* The start of each of intent_analysis, vkdb_search and mysql_join yields
\* its status event; the start of intent_structurize, data_aggregate and
\* llm_analyze yields no event.
C35_NamedStagesYieldStatus ==
    [][/\ \A n \in {"intent_analysis", "vkdb_search", "mysql_join"} :
             NodeStarts(n) => StatusFor(n) /= "" /\ out' = Append(out, Status(StatusFor(n)))
       /\ \A n \in {"intent_structurize", "data_aggregate", "llm_analyze"} :
             NodeStarts(n) => out' = out
      ]_vars

\* The updates the running node may return in the current state.
UpdatesOfRunningNode ==
    NodeUpdates(pc, state, settings.intent_structurize_enabled, ReplyTexts)
\* The keys the nodes write and read back that AgentState does not declare.
UndeclaredFields == {"structured_intents", "aggregated_stats", "analysis_result"}

\* C36: every field a node returns in its partial update is a field that
\* AgentState declares.
C36_UpdatesCarryDeclaredFieldsOnly ==
    (phase = "loop" /\ pc \in NodeNames /\ stage = "running") =>
        \A u \in UpdatesOfRunningNode : DOMAIN u \subseteq AgentStateFields
\* Every field a node returns is declared by AgentState or is one of
\* structured_intents, aggregated_stats, analysis_result; and when the
\* executor drops the undeclared keys, none of the three is ever in the state.
C36_UpdatesCarryKnownFieldsOnly ==
    /\ (phase = "loop" /\ pc \in NodeNames /\ stage = "running") =>
           \A u \in UpdatesOfRunningNode :
               DOMAIN u \subseteq AgentStateFields \cup UndeclaredFields
    /\ ~keeps_undeclared => DOMAIN state \cap UndeclaredFields = {}

\* C37: one agent_stream invocation executes the graph at most once, also
\* when no token was streamed and no final_summary was captured.
C37_GraphExecutedAtMostOnce == runs <= 1
\* The graph is executed at most twice, and a second time only at the end of
\* a stream in which no token was streamed and no non-empty final_summary
\* was captured.
C37_SecondExecutionOnlyInFallback ==
    /\ runs <= 2
    /\ runs = 2 => phase = "closed" /\ ~streamed_token /\ ~TruthySeq(CapturedSummary)

\* No node was started twice in the run.
NoNodeTwice == \A j, k \in 1..Len(visited) : visited[j] = visited[k] => j = k
\* The run of the graph is over: it reached the end, or an exception left it.
RunOver == pc = END \/ phase = "closed"

\* C38: when every collaborator call returns or raises, a run of the graph
\* terminates; it executes at most seven nodes, none of them twice.
C38_RunTerminatesWithinSevenNodes ==
    /\ [](Len(visited) <= 7 /\ NoNodeTwice)
    /\ (phase = "loop") ~> RunOver
\* A run that reached the end after seven nodes.
C38_Witness ==
    /\ pc = END /\ Len(visited) = 7 /\ NoNodeTwice

\* The search node of this run returned an error and left vkdb_response unset.
SearchFailed ==
    /\ phase /= "init"
    /\ failed_node = "vkdb_search"
    /\ ~IsSet(state.vkdb_response)
\* Every update the running node may return carries an error.
ReturnsErrorOnly == \A u \in UpdatesOfRunningNode : IsSet(Get(u, "error"))

\* C39: after vkdb_search failed, no later node calls a collaborator:
\* intent_structurize (when enabled), mysql_join and llm_summarize run without
\* the batch, the row query or a completion call and return an error update,
\* and no other node runs.
C39_NoCollaboratorCallAfterFailedSearch ==
    (SearchFailed /\ stage = "running" /\ pc /= "vkdb_search") =>
        /\ pc \in {"intent_structurize", "mysql_join", "llm_summarize"}
        /\ ~CallsLLM(pc, state) /\ llm_n = 0 /\ llm_text = <<>>
        /\ pc = "intent_structurize" =>
               /\ ~IntentStructurizeCallsBatch(state, settings.intent_structurize_enabled)
               /\ settings.intent_structurize_enabled => ReturnsErrorOnly
        /\ pc = "mysql_join" => ~MysqlJoinCallsService(state) /\ ReturnsErrorOnly
        /\ pc = "llm_summarize" => ReturnsErrorOnly
\* A finished request whose search failed and which went on through
\* intent_structurize (enabled), mysql_join and llm_summarize.
C39_Witness ==
    /\ SearchFailed
    /\ settings.intent_structurize_enabled
    /\ phase = "closed"
    /\ visited = <<"intent_analysis", "vkdb_search", "intent_structurize",
                   "mysql_join", "llm_summarize">>

\* final_summary of the final_state given to the call (None when it has none).
GivenSummary ==
    IF IsSet(f_args.final_state) THEN Get(f_args.final_state[1], "final_summary") ELSE None

C40_TrailingTokenOnlyAfterAShorterText ==
    (Returned("agent_stream.trailing") /\ f_result /= <<>>) =>
        /\ f_args.streamed_token
        /\ TruthySeq(GivenSummary)
        /\ Len(GivenSummary[1]) > Len(f_args.accumulated_text)
        /\ f_result = <<Token(SubSeq(GivenSummary[1], Len(f_args.accumulated_text) + 1,
                                     Len(GivenSummary[1])))>>
\* In a request, the text streamed is a prefix of the captured final_summary
\* whenever the trailing token is yielded: the stream then ends with the
\* events before, the trailing token and done.
C40_StreamedTextIsAPrefix ==
    [][(phase = "loop" /\ phase' = "closed" /\ pc = END /\ streamed_token
        /\ out' /= Append(out, Done)) =>
           /\ TruthySeq(CapturedSummary)
           /\ StrictPrefix(accumulated_text, CapturedSummary[1])
      ]_vars

=============================================================================
